---- MODULE Spec2Model ----
(***************************************************************************)
(* Model of the Telegram signal relay: the callback handler registered by  *)
(* setupBotHandlers for /simulate_trade_(.+)/, the progress-refresh timer   *)
(* it creates, and handleSimulateTradeRequest with fetchUserData,           *)
(* simulateTrade and the trade_simulations insert.                          *)
(*                                                                         *)
(* Every await of the JavaScript code is a point where the handler is       *)
(* suspended: one action of the model runs the synchronous code between two *)
(* awaits, i.e. it consumes the result of the call awaited so far and       *)
(* issues the next call.  pc[r] names the call handler run r is awaiting.   *)
(***************************************************************************)
EXTENDS Integers, Sequences, FiniteSets, TLC

\* ------------------------------------------------------------------ bounds
\* number of interaction events (button clicks) delivered to the bot
MaxRuns == 2

Runs == 1..MaxRuns

\* ------------------------------------------------------------- text values
\* A text is a sequence of one-character strings, so that replace(/_/g,'\\_')
\* is something the model computes.
NA == <<"N", "/", "A">>
UnknownError == <<"U", "n", "k", "n", "o", "w", "n", " ", "e", "r", "r", "o", "r">>
Undefined == <<"u", "n", "d", "e", "f", "i", "n", "e", "d">>

\* A JavaScript value read from the RPC response: a string, a number (any
\* truthy non-string), or undefined.
Str(s) == [t |-> "str", v |-> s]
Num(s) == [t |-> "num", v |-> s]
Absent == [t |-> "absent", v |-> <<>>]

\* x || y
Or(x, y) == IF x.t = "absent" \/ (x.t = "str" /\ x.v = <<>>) THEN y ELSE x

\* `${x}`
Render(x) == IF x.t = "absent" THEN Undefined ELSE x.v

\* (the text is interpolated as it is)
EscapeNothing(s) == s

RECURSIVE EscapeUnderscores(_)
\* s.replace(/_/g, '\\_')
EscapeUnderscores(s) ==
  IF s = <<>> THEN <<>>
  ELSE (IF Head(s) = "_" THEN <<"\\", "_">> ELSE <<Head(s)>>) \o EscapeUnderscores(Tail(s))

\* x.replace is a function only when x is a string
CanReplace(x) == x.t = "str"

\* --------------------------------------------------------- signal messages
\* A message text is a sequence of lexemes.  A label of the parser's patterns
\* is one lexeme and so is a word of the prose; the characters the patterns
\* look at one by one (digits, capital letters, "$", ".", "(") are one lexeme
\* each.  An emoji is written as its name in angle brackets.
Null == -1

\* the token of a match that failed (a matched [A-Z]+ is never empty)
NullToken == <<>>

Whitespace == {" ", "\n"}

\* \d
Digit == [d \in {"0", "1", "2", "3", "4", "5", "6", "7", "8", "9"} |->
           CASE d = "0" -> 0 [] d = "1" -> 1 [] d = "2" -> 2 [] d = "3" -> 3
             [] d = "4" -> 4 [] d = "5" -> 5 [] d = "6" -> 6 [] d = "7" -> 7
             [] d = "8" -> 8 [] d = "9" -> 9]

\* [A-Z]
UpperLetters == {"A", "B", "C", "D", "E", "F", "G", "H", "I", "J", "K", "L", "M",
                 "N", "O", "P", "Q", "R", "S", "T", "U", "V", "W", "X", "Y", "Z"}

\* A price is a number of units of 10^-FractionDigits: the fractional digits
\* the model keeps of a JavaScript number.
FractionDigits == 7

Unit == 10^FractionDigits

RECURSIVE Decimal(_)
\* `${n}` of a non-negative integer
Decimal(n) ==
  IF n < 10 THEN <<CASE n = 0 -> "0" [] n = 1 -> "1" [] n = 2 -> "2" [] n = 3 -> "3"
                     [] n = 4 -> "4" [] n = 5 -> "5" [] n = 6 -> "6" [] n = 7 -> "7"
                     [] n = 8 -> "8" [] n = 9 -> "9">>
  ELSE Decimal(n \div 10) \o Decimal(n % 10)

\* [class]*: the position after the longest run of the class at i
RunEnd(text, i, class) ==
  LET end[p \in 1..(Len(text) + 1)] ==
        IF p <= Len(text) /\ text[p] \in class THEN end[p + 1] ELSE p
  IN end[i]

\* \s*
SkipWhitespace(text, i) == RunEnd(text, i, Whitespace)

\* the value of a run of digits
IntegerOf(digits) ==
  LET value[n \in 0..Len(digits)] ==
        IF n = 0 THEN 0 ELSE 10 * value[n - 1] + Digit[digits[n]]
  IN value[Len(digits)]

\* the value of the digits after the point
FractionOf(digits) ==
  LET value[n \in 0..Len(digits)] ==
        IF n = 0 THEN 0
        ELSE value[n - 1] + (IF n <= FractionDigits
                             THEN Digit[digits[n]] * 10^(FractionDigits - n) ELSE 0)
  IN value[Len(digits)]

\* (the digits after the point are dropped)
parseFloatAsInteger(int, frac) == IntegerOf(int) * Unit

\* parseFloat of the captured digits, point and digits
parseFloat(int, frac) == IntegerOf(int) * Unit + FractionOf(frac)

\* \s*\$?(\d+\.?\d*) matched at position i: whether it matches, and the
\* digits captured before and after the point
NumberAt(text, i) ==
  LET j == SkipWhitespace(text, i)
      k == IF j <= Len(text) /\ text[j] = "$" THEN j + 1 ELSE j
      e == RunEnd(text, k, DOMAIN Digit)
      f == IF e <= Len(text) /\ text[e] = "." THEN RunEnd(text, e + 1, DOMAIN Digit) ELSE e
  IN [matched |-> e > k, int |-> SubSeq(text, k, e - 1),
      frac |-> IF f > e THEN SubSeq(text, e + 1, f - 1) ELSE <<>>]

\* message.match(/<label>\s*\$?(\d+\.?\d*)/): the leftmost match, parsed
MatchNumber(text, label) ==
  LET hits == {i \in 1..Len(text) : text[i] = label /\ NumberAt(text, i + 1).matched}
      parsed[i \in 1..Len(text)] ==
        parseFloat(NumberAt(text, i + 1).int, NumberAt(text, i + 1).frac)
  IN IF hits = {} THEN Null ELSE parsed[CHOOSE i \in hits : \A h \in hits : i <= h]

\* <label>\s*([A-Z]+)\s*\( matched at the label at position i: whether it
\* matches, and the letters captured
TokenAt(text, i) ==
  LET j == SkipWhitespace(text, i + 1)
      e == RunEnd(text, j, UpperLetters)
      p == SkipWhitespace(text, e)
  IN [matched |-> e > j /\ p <= Len(text) /\ text[p] = "(",
      letters |-> SubSeq(text, j, e - 1)]

\* message.match(/<label>\s*([A-Z]+)\s*\(/)
MatchToken(text, label) ==
  LET hits == {i \in 1..Len(text) : text[i] = label /\ TokenAt(text, i).matched}
      letters[i \in 1..Len(text)] == TokenAt(text, i).letters
  IN IF hits = {} THEN NullToken ELSE letters[CHOOSE i \in hits : \A h \in hits : i <= h]

parseSignalMessage(message) ==
  [token |-> MatchToken(message, "<temple> Token:"),
   tp1 |-> MatchNumber(message, "TP1:"),
   tp2 |-> MatchNumber(message, "TP2:"),
   sl |-> MatchNumber(message, "<stop> Stop Loss:"),
   entryPrice |-> MatchNumber(message, "<money> Entry Price:")]

\* The signal text as the chat delivers it back in callbackQuery.message.text
SignalText ==
  <<"<rocket> Bullish Alert <rocket>", "\n", "<temple> Token:", " ", "U", "N", "I", " ",
    "(", "uniswap", ")", "\n",
    "<money> Entry Price:", " ", "$", "9", ".", "3", "7", "\n",
    "TP1:", " ", "$", "1", "1", ".", "3", "7", "\n",
    "TP2:", " ", "$", "1", "3", ".", "3", "7", "\n",
    "<stop> Stop Loss:", " ", "$", "8", ".", "3", "7">>

\* ------------------------------------------------------- the document store
Usernames == {"alice", "bob", "carol", "dave", "erin"}

\* users collection of ctxbt-signal-flow: findOne({telegramId: username})
\* (dave has no document, bob's document has no twitterId)
usersCollection ==
  [u \in Usernames |->
     CASE u = "alice" -> [found |-> TRUE, twitterId |-> "tw_alice", chatId |-> 11]
       [] u = "bob"   -> [found |-> TRUE, twitterId |-> "", chatId |-> 12]
       [] u = "carol" -> [found |-> TRUE, twitterId |-> "tw_carol", chatId |-> 13]
       [] u = "dave"  -> [found |-> FALSE, twitterId |-> "", chatId |-> 0]
       [] u = "erin"  -> [found |-> TRUE, twitterId |-> "tw_erin", chatId |-> 0]]

\* safes collection of safe-deployment-service:
\* findOne({"userInfo.userId": twitterId}); address is deployments.arbitrum.address
safesCollection ==
  [t \in {"tw_alice", "tw_carol"} |->
     CASE t = "tw_alice" -> [found |-> TRUE, address |-> <<"0", "x", "_", "a">>]
       [] t = "tw_carol" -> [found |-> FALSE, address |-> <<>>]]

\* ------------------------------------------------------ interaction events
\* The fields of ctx the handler reads: the data behind userData.  The clicking
\* users: alice resolves, carol has no safe, dave has no user document.
EventUsers == {"alice", "carol", "dave"}

Events ==
  {[username |-> u, chatId |-> usersCollection[u].chatId, messageId |-> 7,
    messageText |-> SignalText, callbackQueryId |-> 70,
    callbackData |-> <<"1700000000000", "_", u>>] : u \in EventUsers}

NoEvent == [username |-> "", chatId |-> 0, messageId |-> 0, messageText |-> <<>>,
            callbackQueryId |-> 0, callbackData |-> <<>>]

\* ------------------------------------------------------ the RPC's responses
\* response.data of the simulation API, read without a schema: status,
\* signalId, result.tradingPair.{networkKey, safeAddress, tradeId, status,
\* error} and result.error.
Response(status, signalId, networkKey, safeAddress, tradeId, pairStatus, err, pairErr) ==
  [status |-> status, signalId |-> signalId, networkKey |-> networkKey,
   safeAddress |-> safeAddress, tradeId |-> tradeId, pairStatus |-> pairStatus,
   error |-> err, pairError |-> pairErr]

NoResponse == Response("none", Absent, Absent, Absent, Absent, Absent, Absent, Absent)

SigId == Str(<<"s", "_", "1">>)

Responses ==
  { Response("success", SigId, Str(<<"a", "r", "b">>), Str(<<"0", "x", "_", "a">>),
             Str(<<"t", "_", "9">>), Str(<<"o", "k">>), Absent, Absent),
    Response("success", SigId, Str(<<"a", "r", "b">>), Absent,
             Num(<<"4", "2">>), Absent, Absent, Absent),
    Response("failed", SigId, Absent, Absent, Absent, Absent,
             Str(<<"s", "l", "i", "p", "_", "x">>), Absent),
    Response("pending", SigId, Absent, Absent, Absent, Absent, Absent, Absent) }

\* response.data without a status (and without anything else)
StatuslessResponse == Response("", Absent, Absent, Absent, Absent, Absent, Absent, Absent)

\* --------------------------------------------------------- message texts
Text(kind, fields) == [kind |-> kind, fields |-> fields]

NoMessage == Text("none", <<>>)
ProcessingText == Text("processing", <<>>)
RefreshText == Text("refresh", <<>>)
ErrorText == Text("error", <<>>)

\* The operands of the two .replace calls of the success branch and of the one
\* of the failed branch
ReplaceOperands(resp) ==
  IF resp.status = "success" THEN {Or(resp.safeAddress, Str(NA)), Or(resp.tradeId, Str(NA))}
  ELSE IF resp.status = "failed"
       THEN {Or(resp.error, Or(resp.pairError, Str(UnknownError)))}
       ELSE {}

\* Formatting raises a TypeError when .replace is called on a non-string
FormatThrows(resp) == \E x \in ReplaceOperands(resp) : ~CanReplace(x)

\* (the status is compared with a word the API does not send)
FormatReplyWrongStatusWord(resp) ==
  IF resp.status = "ok"
  THEN Text("success", <<>>)
  ELSE IF resp.status = "failed"
       THEN Text("failed",
                 <<Render(resp.signalId), Render(Or(resp.networkKey, Str(NA))),
                   EscapeUnderscores(Or(resp.error, Or(resp.pairError, Str(UnknownError))).v)>>)
       ELSE Text("initiated", <<>>)

\* (a response of an unexpected format is reported as an error)
FormatReplyUnexpectedIsError(resp) ==
  IF resp.status = "success"
  THEN Text("success",
            <<Render(resp.signalId), Render(Or(resp.networkKey, Str(NA))),
              EscapeUnderscores(Or(resp.safeAddress, Str(NA)).v),
              EscapeUnderscores(Or(resp.tradeId, Str(NA)).v),
              Render(Or(resp.pairStatus, Str(NA)))>>)
  ELSE IF resp.status = "failed"
       THEN Text("failed",
                 <<Render(resp.signalId), Render(Or(resp.networkKey, Str(NA))),
                   EscapeUnderscores(Or(resp.error, Or(resp.pairError, Str(UnknownError))).v)>>)
       ELSE ErrorText

\* replyMessage, as the fields interpolated into the template
FormatReply(resp) ==
  IF resp.status = "success"
  THEN Text("success",
            <<Render(resp.signalId), Render(Or(resp.networkKey, Str(NA))),
              EscapeUnderscores(Or(resp.safeAddress, Str(NA)).v),
              EscapeUnderscores(Or(resp.tradeId, Str(NA)).v),
              Render(Or(resp.pairStatus, Str(NA)))>>)
  ELSE IF resp.status = "failed"
       THEN Text("failed",
                 <<Render(resp.signalId), Render(Or(resp.networkKey, Str(NA))),
                   EscapeUnderscores(Or(resp.error, Or(resp.pairError, Str(UnknownError))).v)>>)
       ELSE Text("initiated", <<>>)

\* ------------------------------------------------------------------ state
VARIABLES
  pc,                 \* per run: the call the handler is awaiting
  userData,           \* per run: the captured interaction event
  callLog,            \* per run: the calls the handler has issued, in order
  progressInterval,   \* per run: TRUE while the refresh timer is set
  refreshInFlight,    \* per run: TRUE while some refresh edit is issued and unanswered
  processingMessage,  \* per run: the text the chat shows for the processing message
  apiResponse,        \* per run: what the RPC returned
  failure,            \* per run: the error that took the flow to a catch block
  terminal,           \* per run: the terminal message the transport accepted
  cachedClient,       \* dbConnect's module-level cache
  trade_simulations,  \* the trade_simulations collection
  rpcCalls,           \* the requests posted to the simulation API
  insertCalls,        \* the documents passed to insertOne
  error,              \* per run: the error the catch of the inner try received
  send,               \* per sendMessage call: where it stands, its arguments and locals
  transportCalls,     \* the messages handed to the chat transport, in order
  chat,               \* the messages the chat transport delivered
  callbackQuery,      \* per run: the callback query the bot received
  handledBy,          \* per run: the bot.action handler that took the query
  console,            \* per run: the lines its catch blocks logged, where they are kept
  parser              \* a call of parseSignalMessage: its argument and its result

vars == <<pc, userData, callLog, progressInterval, refreshInFlight, processingMessage,
          apiResponse, failure, terminal, cachedClient, trade_simulations, rpcCalls,
          insertCalls, error, send, transportCalls, chat, callbackQuery, handledBy,
          console, parser>>

\* the state of the Dispatcher and of the routing of callback queries
dispatcherVars == <<send, transportCalls, chat, callbackQuery, handledBy>>

NoTerminal == [via |-> "none", text |-> NoMessage]

\* Error values: what was thrown and the text of its message
NoError == [name |-> "none", message |-> <<>>]

\* new Error(`User not found or twitterId not available for telegram username: ${telegramUsername}`)
UserNotFoundError(telegramUsername) ==
  [name |-> "Error",
   message |-> <<"User not found or twitterId not available for telegram username: ",
                 telegramUsername>>]

\* new Error(`Safe not found or arbitrum address not available for twitterId: ${twitterId}`)
SafeNotFoundError(twitterId) ==
  [name |-> "Error",
   message |-> <<"Safe not found or arbitrum address not available for twitterId: ",
                 twitterId>>]

\* an error raised by the store driver or by the HTTP client for a call
DriverError(call) == [name |-> "DriverError", message |-> <<call>>]

\* the error of the chat transport for a rejected call of the handler
TransportError(call) == [name |-> "TransportError", message |-> <<call>>]

\* x.method is not a function
TypeError(what) == [name |-> "TypeError", message |-> <<what>>]

\* ------------------------------------------------- the Dispatcher's data
MaxSends == 1
Sends == 1..MaxSends

\* the telegramId of a user document, character by character
Spell(u) ==
  CASE u = "alice" -> <<"a", "l", "i", "c", "e">>
    [] u = "bob"   -> <<"b", "o", "b">>
    [] u = "carol" -> <<"c", "a", "r", "o", "l">>
    [] u = "dave"  -> <<"d", "a", "v", "e">>
    [] u = "erin"  -> <<"e", "r", "i", "n">>

\* usersCollection.findOne({ telegramId: username }) for a username as typed
FindUser(username) ==
  IF \E u \in Usernames : Spell(u) = username /\ usersCollection[u].found
  THEN usersCollection[CHOOSE u \in Usernames : Spell(u) = username]
  ELSE [found |-> FALSE, twitterId |-> "", chatId |-> 0]

\* the usernames sendMessage is called with: plain, with a leading at-sign,
\* with an at-sign inside, with two leading at-signs, of users without a
\* document (dave) or without a chat id (erin)
SendUsernames ==
  { Spell("alice"), <<"@">> \o Spell("alice"), <<"a", "l", "@", "i", "c", "e">>,
    <<"@", "@">> \o Spell("bob"), Spell("bob"), <<"@">> \o Spell("dave"), Spell("erin") }

\* testSignalMessage of the send-test-signal route, without its timeline and
\* trade tip
testSignalMessage ==
  <<"<rocket> **Bullish Alert** <rocket>", "\n", "<temple> **Token**:", " ", "U", "N", "I", " ",
    "(", "uniswap", ")", "\n", "<chart> **Signal**:", " ", "Buy", "\n",
    "<money> **Entry Price**:", " ", "$", "9", ".", "3", "7", "\n",
    "TP1:", " ", "$", "1", "1", ".", "3", "7", "\n",
    "TP2:", " ", "$", "1", "3", ".", "3", "7", "\n",
    "<stop> **Stop Loss**:", " ", "$", "8", ".", "3", "7">>

\* the messages sendMessage is called with
SendMessages ==
  { testSignalMessage,
    <<"plain", " ", "update", ",", " ", "no", " ", "signal">>,
    <<"<temple> **Token**:", " ", "U", "N", "I", "\n", "<chart> **Signal**:", " ", "Buy">>,
    <<"<rocket> **bullish alert** <rocket>", "\n", "<chart> **Signal**:", " ", "buy">>,
    <<"<bear> **Bearish Warning** <bear>", "\n", "<chart> **Signal**:", " ", "Sell", "\n",
      "<rocket> Bullish Alert <rocket>", "\n", "<chart> **Signal**:", "Buy">> }

\* Date.now() at the calls
Clock == {7, 1700}

\* the description the chat transport reports with a rejection
Descriptions == {"Forbidden: bot was blocked by the user"}

\* An error the transport client rejects with: a TelegramError of Telegraf
\* carries the API's payload as error.response (no .data); an AxiosError of
\* an answered request carries error.response.data; an error of the network
\* carries no response.
Rejection(client, description) ==
  [client |-> client, hasResponse |-> TRUE, hasData |-> client = "axios",
   description |-> description, message |-> <<description>>]
NetworkError(client) ==
  [client |-> client, hasResponse |-> FALSE, hasData |-> FALSE,
   description |-> "", message |-> <<"network error">>]

\* an error thrown with new Error(message), or by the store driver
PlainError(message) ==
  [client |-> "", hasResponse |-> FALSE, hasData |-> FALSE,
   description |-> "", message |-> message]
NoRejection == PlainError(<<>>)

Rejections(client) == {Rejection(client, d) : d \in Descriptions} \cup {NetworkError(client)}

\* what sendMessage returned or threw
Outcome(outcome, name, message) == [outcome |-> outcome, name |-> name, message |-> message]
NoOutcome == Outcome("none", "", <<>>)

\* a field of a request body (a JSON object): there with a text, or not there
Field(v) == [present |-> TRUE, v |-> v]
NoField == [present |-> FALSE, v |-> <<>>]
NoRequest == [username |-> NoField, message |-> NoField]

NoSend ==
  [pc |-> "idle", username |-> <<>>, message |-> <<>>, cleanUsername |-> <<>>,
   chatId |-> 0, isBullish |-> FALSE, caught |-> NoRejection, result |-> NoOutcome,
   route |-> "none", request |-> NoRequest]

\* a callback query: its data, the message it hangs on and who pressed
NoQuery == [data |-> <<>>, from |-> "", messageText |-> <<>>, chatId |-> 0, origin |-> 0]

\* no call of the parser on its own
NoParse ==
  [pc |-> "none", signal |-> [token |-> <<>>, tp1 |-> Null, tp2 |-> Null, sl |-> Null,
                              entryPrice |-> Null],
   labels |-> "plain", message |-> <<>>,
   result |-> [token |-> <<>>, tp1 |-> Null, tp2 |-> Null, sl |-> Null, entryPrice |-> Null]]

DispatcherInit ==
  /\ send = [s \in Sends |-> NoSend]
  /\ transportCalls = <<>>
  /\ chat = {}
  /\ callbackQuery = [r \in Runs |-> NoQuery]
  /\ handledBy = [r \in Runs |-> "none"]

Init ==
  /\ pc = [r \in Runs |-> "idle"]
  /\ userData = [r \in Runs |-> NoEvent]
  /\ callLog = [r \in Runs |-> <<>>]
  /\ progressInterval = [r \in Runs |-> FALSE]
  /\ refreshInFlight = [r \in Runs |-> FALSE]
  /\ processingMessage = [r \in Runs |-> NoMessage]
  /\ apiResponse = [r \in Runs |-> NoResponse]
  /\ failure = [r \in Runs |-> "none"]
  /\ terminal = [r \in Runs |-> NoTerminal]
  /\ cachedClient = FALSE
  /\ trade_simulations = {}
  /\ rpcCalls = {}
  /\ insertCalls = {}
  /\ error = [r \in Runs |-> NoError]
  /\ DispatcherInit
  /\ console = [r \in Runs |-> [kept |-> FALSE, lines |-> {}]]
  /\ parser = NoParse

\* ------------------------------------------------- pieces of the handlers
\* The handler of run r issues `call` and awaits it.
Issue(r, call) ==
  /\ pc' = [pc EXCEPT ![r] = call]
  /\ callLog' = [callLog EXCEPT ![r] = Append(@, call)]

\* (the record is inserted before anything else is done)
CallDbConnectInsertsFirst(r) ==
  /\ pc' = [pc EXCEPT ![r] = "insertOne"]
  /\ callLog' = [callLog EXCEPT ![r] = Append(@, "insertOne")]

\* handleSimulateTradeRequest starts with await dbConnect(): with an empty
\* cache client.connect() is pending; otherwise the cached client comes back
\* at once and the next pending call is usersCollection.findOne of fetchUserData.
CallDbConnect(r) ==
  /\ pc' = [pc EXCEPT ![r] = IF cachedClient THEN "findUser" ELSE "dbConnect"]
  /\ callLog' = [callLog EXCEPT ![r] =
       IF cachedClient THEN @ \o <<"dbConnect", "findUser">> ELSE Append(@, "dbConnect")]

\* console.log(line) in the handler of run r
Log(r, line) ==
  console' = [console EXCEPT ![r].lines = IF console[r].kept THEN @ \cup {line} ELSE @]

\* The handler returns (or rejects) without issuing another call.
Finish(r) ==
  /\ pc' = [pc EXCEPT ![r] = "done"]
  /\ UNCHANGED callLog

\* (only the document is checked)
UserMissingOnlyNoDocument(user) == ~user.found

\* if (!user || !user.twitterId)
UserMissing(user) == ~user.found \/ user.twitterId = ""

\* safesCollection.findOne({"userInfo.userId": twitterId})
FindSafe(twitterId) ==
  IF twitterId \in DOMAIN safesCollection THEN safesCollection[twitterId]
  ELSE [found |-> FALSE, address |-> <<>>]

\* (the check of the safe document is missing)
SafeNeverMissing(safe) == FALSE

\* if (!safe || !safe.deployments?.arbitrum?.address)
SafeMissing(safe) == ~safe.found \/ safe.address = <<>>

\* what fetchUserData returns for a username both lookups resolve
fetchUserData(username) ==
  [username |-> usersCollection[username].twitterId,
   safeAddress |-> FindSafe(usersCollection[username].twitterId).address]

\* signalData.entryPrice || (signalData.tp1 && signalData.sl ?
\*    (signalData.tp1 + signalData.sl) / 2 : null), times two
Truthy(n) == n # Null /\ n # 0
CurrentPriceTimes2(signalData) ==
  IF Truthy(signalData.entryPrice) THEN 2 * signalData.entryPrice
  ELSE IF Truthy(signalData.tp1) /\ Truthy(signalData.sl)
       THEN signalData.tp1 + signalData.sl
       ELSE Null

\* apiBody of simulateTrade
apiBody(signalData, username, safeAddress) ==
  [signalMessage |-> "buy", tokenMentioned |-> signalData.token,
   tp1 |-> signalData.tp1, tp2 |-> signalData.tp2, sl |-> signalData.sl,
   currentPriceTimes2 |-> CurrentPriceTimes2(signalData),
   username |-> username, safeAddress |-> safeAddress]

\* (the response is not added to the record)
simulationRecordWithoutResponse(id, ud, resp) ==
  [id |-> id, status |-> "initiated", userData |-> ud,
   apiResponse |-> NoResponse,
   signalData |-> parseSignalMessage(ud.messageText),
   twitterId |-> fetchUserData(ud.username).username,
   safeAddress |-> fetchUserData(ud.username).safeAddress]

\* (the record takes the status of the response)
simulationRecordStatusOfResponse(id, ud, resp) ==
  [id |-> id, status |-> resp.status, userData |-> ud,
   apiResponse |-> resp,
   signalData |-> parseSignalMessage(ud.messageText),
   twitterId |-> fetchUserData(ud.username).username,
   safeAddress |-> fetchUserData(ud.username).safeAddress]

\* simulationRecord at the insert; id stands for the _id the driver assigns
simulationRecord(id, ud, resp) ==
  [id |-> id, status |-> "initiated", userData |-> ud,
   apiResponse |-> resp,
   signalData |-> parseSignalMessage(ud.messageText),
   twitterId |-> fetchUserData(ud.username).username,
   safeAddress |-> fetchUserData(ud.username).safeAddress]

\* (an upsert keyed by the callback query)
upsertByCallbackQuery(collection, doc) ==
  {d \in collection : d.userData.callbackQueryId # doc.userData.callbackQueryId} \cup {doc}

\* (the record replaces the one the collection holds for the user)
replaceOne(collection, doc) ==
  {d \in collection : d.userData.username # doc.userData.username} \cup {doc}

\* simulationCollection.insertOne(doc)
insertOne(collection, doc) == collection \cup {doc}

\* (the catch leaves the timer set)
InnerCatchKeepsTimer(r, cause, err) ==
  /\ failure' = [failure EXCEPT ![r] = cause]
  /\ error' = [error EXCEPT ![r] = err]
  /\ Issue(r, "catchAnswerCbQuery")
  /\ UNCHANGED progressInterval

\* (the catch clears the timers of all the handlers)
InnerCatchClearsEveryTimer(r, cause, err) ==
  /\ progressInterval' = [q \in Runs |-> FALSE]
  /\ failure' = [failure EXCEPT ![r] = cause]
  /\ error' = [error EXCEPT ![r] = err]
  /\ Issue(r, "catchAnswerCbQuery")

\* catch of the inner try: clearInterval, then a second answerCbQuery
InnerCatch(r, cause, err) ==
  /\ progressInterval' = [progressInterval EXCEPT ![r] = FALSE]
  /\ failure' = [failure EXCEPT ![r] = cause]
  /\ error' = [error EXCEPT ![r] = err]
  /\ Issue(r, "catchAnswerCbQuery")

\* (the outer catch replies at once, without a further answerCbQuery)
OuterCatchRepliesAtOnce(r, cause) ==
  /\ failure' = [failure EXCEPT ![r] = IF @ = "none" THEN cause ELSE @]
  /\ Issue(r, "outerReply")
  /\ UNCHANGED <<progressInterval, error>>

\* catch of the outer try: a further answerCbQuery; the timer is not touched
OuterCatch(r, cause) ==
  /\ failure' = [failure EXCEPT ![r] = IF @ = "none" THEN cause ELSE @]
  /\ Issue(r, "outerAnswerCbQuery")
  /\ UNCHANGED <<progressInterval, error>>

\* (the handler of the earlier version: the Orchestrator is awaited first)
AfterCaptureOrchestratorFirst(r) == CallDbConnect(r)

\* the first call of the handler once userData is captured:
\* await ctx.answerCbQuery(...)
AfterCapture(r) == Issue(r, "answerCbQuery")

\* -------------------------------------------------------------- actions
\* bot.action(/simulate_trade_(.+)/, ...): the event is captured into userData
\* and answerCbQuery is issued.  Events reach the runs in the order of arrival.
Receive(r) ==
  /\ pc[r] = "idle"
  /\ \A q \in Runs : q < r => pc[q] # "idle"
  /\ \E ev \in Events : userData' = [userData EXCEPT ![r] = ev]
  /\ AfterCapture(r)
  /\ UNCHANGED <<progressInterval, refreshInFlight, processingMessage, apiResponse,
                 failure, terminal, cachedClient, trade_simulations, rpcCalls, insertCalls>>
  /\ UNCHANGED <<error, dispatcherVars, console, parser>>

\* await ctx.answerCbQuery(...) returns: ctx.reply posts the processing message
AckReturn(r) ==
  /\ pc[r] = "answerCbQuery"
  /\ \E ok \in BOOLEAN :
       IF ok THEN Issue(r, "reply") /\ UNCHANGED <<failure, progressInterval, error>>
       ELSE OuterCatch(r, "ack")
  /\ UNCHANGED <<userData, refreshInFlight, processingMessage, apiResponse, terminal,
                 cachedClient, trade_simulations, rpcCalls, insertCalls>>
  /\ UNCHANGED <<dispatcherVars, console, parser>>

\* await ctx.reply(...) returns: setInterval, then handleSimulateTradeRequest
\* runs up to its first pending call
PostReturn(r) ==
  /\ pc[r] = "reply"
  /\ \E ok \in BOOLEAN :
       IF ok
       THEN /\ processingMessage' = [processingMessage EXCEPT ![r] = ProcessingText]
            /\ progressInterval' = [progressInterval EXCEPT ![r] = TRUE]
            /\ CallDbConnect(r)
            /\ UNCHANGED <<failure, error>>
       ELSE OuterCatch(r, "post") /\ UNCHANGED processingMessage
  /\ UNCHANGED <<userData, refreshInFlight, apiResponse, terminal, cachedClient,
                 trade_simulations, rpcCalls, insertCalls>>
  /\ UNCHANGED <<dispatcherVars, console, parser>>

\* (the client is cached before its connect call has resolved)
ConnectFailedCachesClient(r) ==
  /\ cachedClient' = TRUE
  /\ InnerCatch(r, "connect", DriverError("connect"))

\* dbConnect: client.connect() rejects; the catch logs and rethrows, the
\* assignment to cachedClient is skipped, and the inner catch of the handler
\* receives the error
ConnectFailed(r) ==
  /\ InnerCatch(r, "connect", DriverError("connect"))
  /\ UNCHANGED cachedClient

\* dbConnect: await client.connect() returns
ConnectReturn(r) ==
  /\ pc[r] = "dbConnect"
  /\ \E ok \in BOOLEAN :
       IF ok
       THEN /\ cachedClient' = TRUE
            /\ Issue(r, "findUser")
            /\ UNCHANGED <<failure, progressInterval, error>>
       ELSE ConnectFailed(r)
  /\ UNCHANGED <<userData, refreshInFlight, processingMessage, apiResponse, terminal,
                 trade_simulations, rpcCalls, insertCalls>>
  /\ UNCHANGED <<dispatcherVars, console, parser>>

\* fetchUserData: usersCollection.findOne returns (or rejects)
FindUserReturn(r) ==
  /\ pc[r] = "findUser"
  /\ \E ok \in BOOLEAN :
       IF ok /\ ~UserMissing(usersCollection[userData[r].username])
       THEN Issue(r, "findSafe") /\ UNCHANGED <<failure, progressInterval, error>>
       ELSE InnerCatch(r, "identity",
                       IF ok THEN UserNotFoundError(userData[r].username)
                       ELSE DriverError("findOne"))
  /\ UNCHANGED <<userData, refreshInFlight, processingMessage, apiResponse, terminal,
                 cachedClient, trade_simulations, rpcCalls, insertCalls>>
  /\ UNCHANGED <<dispatcherVars, console, parser>>

\* fetchUserData: safesCollection.findOne returns (or rejects); on success
\* simulateTrade posts apiBody
FindSafeReturn(r) ==
  /\ pc[r] = "findSafe"
  /\ \E ok \in BOOLEAN :
       IF ok /\ ~SafeMissing(FindSafe(usersCollection[userData[r].username].twitterId))
       THEN /\ rpcCalls' = rpcCalls \cup
                 {[run |-> r,
                   body |-> apiBody(parseSignalMessage(userData[r].messageText),
                                    fetchUserData(userData[r].username).username,
                                    fetchUserData(userData[r].username).safeAddress)]}
            /\ Issue(r, "axios.post")
            /\ UNCHANGED <<failure, progressInterval, error>>
       ELSE /\ InnerCatch(r, "identity",
                          IF ok THEN SafeNotFoundError(usersCollection[userData[r].username].twitterId)
                          ELSE DriverError("findOne"))
            /\ UNCHANGED rpcCalls
  /\ UNCHANGED <<userData, refreshInFlight, processingMessage, apiResponse, terminal,
                 cachedClient, trade_simulations,
                 insertCalls>>
  /\ UNCHANGED <<dispatcherVars, console, parser>>

\* (the record is passed to insertOne although the RPC raised)
RpcRejectsRecordsAttempt(r) ==
  /\ insertCalls' = insertCalls \cup
       {[run |-> r, doc |-> simulationRecord(r, userData[r], NoResponse)]}
  /\ InnerCatch(r, "rpc", DriverError("axios.post"))
  /\ UNCHANGED apiResponse

\* axios.post rejects: the catch of simulateTrade and the catch of
\* handleSimulateTradeRequest log and rethrow, and the inner catch of the
\* handler receives the error
RpcRejects(r) ==
  /\ InnerCatch(r, "rpc", DriverError("axios.post"))
  /\ UNCHANGED <<apiResponse, insertCalls>>

\* simulateTrade: axios.post returns response.data, and the record completed
\* with it is passed to insertOne; or axios.post rejects
RpcReturn(r) ==
  /\ pc[r] = "axios.post"
  /\ \/ \E resp \in Responses :
          /\ apiResponse' = [apiResponse EXCEPT ![r] = resp]
          /\ insertCalls' = insertCalls \cup
               {[run |-> r, doc |-> simulationRecord(r, userData[r], resp)]}
          /\ Issue(r, "insertOne")
          /\ UNCHANGED <<failure, progressInterval, error>>
     \/ RpcRejects(r)
  /\ UNCHANGED <<userData, refreshInFlight, processingMessage, terminal, cachedClient,
                 trade_simulations, rpcCalls>>
  /\ UNCHANGED <<dispatcherVars, console, parser>>

\* (the catch only logs)
InsertErrorSwallowed(ok) == FALSE

\* the catch of handleSimulateTradeRequest logs and rethrows
InsertThrows(ok) == ~ok

\* insertOne returns: handleSimulateTradeRequest returns apiResponse, the
\* handler clears the timer, formats replyMessage and issues the terminal edit
InsertReturn(r) ==
  /\ pc[r] = "insertOne"
  /\ \E ok \in BOOLEAN :
       /\ trade_simulations' =
            IF ok THEN insertOne(trade_simulations,
                                 simulationRecord(r, userData[r], apiResponse[r]))
            ELSE trade_simulations
       /\ IF InsertThrows(ok) THEN InnerCatch(r, "insert", DriverError("insertOne"))
          ELSE IF FormatThrows(apiResponse[r]) THEN InnerCatch(r, "format", TypeError("replace"))
          ELSE /\ progressInterval' = [progressInterval EXCEPT ![r] = FALSE]
               /\ Issue(r, "editMessageText")
               /\ UNCHANGED <<failure, error>>
  /\ UNCHANGED <<userData, refreshInFlight, processingMessage, apiResponse, terminal,
                 cachedClient, rpcCalls, insertCalls>>
  /\ UNCHANGED <<dispatcherVars, console, parser>>

\* the terminal editMessageText returns
TerminalEditReturn(r) ==
  /\ pc[r] = "editMessageText"
  /\ \E ok \in BOOLEAN :
       IF ok
       THEN /\ processingMessage' =
                 [processingMessage EXCEPT ![r] = FormatReply(apiResponse[r])]
            /\ terminal' = [terminal EXCEPT ![r] =
                 [via |-> "edit", text |-> FormatReply(apiResponse[r])]]
            /\ Finish(r)
            /\ UNCHANGED <<failure, progressInterval, error>>
       ELSE InnerCatch(r, "edit", TransportError("editMessageText")) /\ UNCHANGED <<processingMessage, terminal>>
  /\ UNCHANGED <<userData, refreshInFlight, apiResponse, cachedClient,
                 trade_simulations, rpcCalls, insertCalls>>
  /\ UNCHANGED <<dispatcherVars, console, parser>>

\* (the rejection of the second answerCbQuery leaves the inner catch)
CatchAckFailedRethrows(r) ==
  /\ Log(r, "Callback query already expired, skipping answerCbQuery")
  /\ Issue(r, "outerAnswerCbQuery")

\* inner catch: the second answerCbQuery is rejected; its own catch logs and
\* the error edit is issued
CatchAckFailed(r) ==
  /\ Log(r, "Callback query already expired, skipping answerCbQuery")
  /\ Issue(r, "catchEdit")

\* inner catch: the second answerCbQuery returns or is rejected; the error
\* edit is issued either way
CatchAckReturn(r) ==
  /\ pc[r] = "catchAnswerCbQuery"
  /\ \E ok \in BOOLEAN :
       IF ok THEN Issue(r, "catchEdit") /\ UNCHANGED console
       ELSE CatchAckFailed(r)
  /\ UNCHANGED <<userData, progressInterval, refreshInFlight, processingMessage,
                 apiResponse, failure, terminal, cachedClient, trade_simulations,
                 rpcCalls, insertCalls>>
  /\ UNCHANGED <<error, dispatcherVars, parser>>

\* (no fallback: the rejection is only logged)
CatchEditFailedNoFallback(r) == Finish(r)

\* what the inner catch does when its error edit is rejected
CatchEditFailed(r) == Issue(r, "catchReply")

\* inner catch: the error edit returns; if it failed, ctx.reply is the fallback
CatchEditReturn(r) ==
  /\ pc[r] = "catchEdit"
  /\ \E ok \in BOOLEAN :
       IF ok
       THEN /\ processingMessage' = [processingMessage EXCEPT ![r] = ErrorText]
            /\ terminal' = [terminal EXCEPT ![r] = [via |-> "edit", text |-> ErrorText]]
            /\ Finish(r)
       ELSE CatchEditFailed(r) /\ UNCHANGED <<processingMessage, terminal>>
  /\ UNCHANGED <<userData, progressInterval, refreshInFlight, apiResponse, failure,
                 cachedClient, trade_simulations, rpcCalls, insertCalls>>
  /\ UNCHANGED <<error, dispatcherVars, console, parser>>

\* inner catch: the fallback ctx.reply returns; its failure leaves the inner
\* catch as an exception, which the outer catch receives
CatchReplyReturn(r) ==
  /\ pc[r] = "catchReply"
  /\ \E ok \in BOOLEAN :
       IF ok
       THEN /\ terminal' = [terminal EXCEPT ![r] = [via |-> "reply", text |-> ErrorText]]
            /\ Finish(r)
            /\ UNCHANGED <<failure, progressInterval, error>>
       ELSE OuterCatch(r, "reply") /\ UNCHANGED terminal
  /\ UNCHANGED <<userData, refreshInFlight, processingMessage, apiResponse,
                 cachedClient, trade_simulations, rpcCalls, insertCalls>>
  /\ UNCHANGED <<dispatcherVars, console, parser>>

\* outer catch: answerCbQuery is rejected; its own catch logs and ctx.reply
\* is issued
OuterAckFailed(r) ==
  /\ Log(r, "Callback query already expired, skipping answerCbQuery")
  /\ Issue(r, "outerReply")

\* outer catch: answerCbQuery returns or is rejected; ctx.reply is issued
\* either way
OuterAckReturn(r) ==
  /\ pc[r] = "outerAnswerCbQuery"
  /\ \E ok \in BOOLEAN :
       IF ok THEN Issue(r, "outerReply") /\ UNCHANGED console
       ELSE OuterAckFailed(r)
  /\ UNCHANGED <<userData, progressInterval, refreshInFlight, processingMessage,
                 apiResponse, failure, terminal, cachedClient, trade_simulations,
                 rpcCalls, insertCalls>>
  /\ UNCHANGED <<error, dispatcherVars, parser>>

\* (the outer catch parks the handler for a retry that nothing schedules)
OuterReplyFailedParks(r) ==
  /\ pc' = [pc EXCEPT ![r] = "retryLater"]
  /\ UNCHANGED callLog

\* what the handler does when the outer catch's ctx.reply is rejected: the
\* rejection leaves the handler
OuterReplyFailed(r) == Finish(r)

\* outer catch: ctx.reply returns
OuterReplyReturn(r) ==
  /\ pc[r] = "outerReply"
  /\ \E ok \in BOOLEAN :
       IF ok
       THEN /\ terminal' = [terminal EXCEPT ![r] = [via |-> "reply", text |-> ErrorText]]
            /\ Finish(r)
       ELSE OuterReplyFailed(r) /\ UNCHANGED terminal
  /\ UNCHANGED <<userData, progressInterval, refreshInFlight, processingMessage,
                 apiResponse, failure, cachedClient, trade_simulations, rpcCalls, insertCalls>>
  /\ UNCHANGED <<error, dispatcherVars, console, parser>>

\* the setInterval callback fires: a refresh editMessageText is issued (it
\* joins those still unanswered, if any)
TimerTick(r) ==
  /\ progressInterval[r]
  /\ ~refreshInFlight[r]
  /\ refreshInFlight' = [refreshInFlight EXCEPT ![r] = TRUE]
  /\ UNCHANGED <<pc, userData, callLog, progressInterval, processingMessage,
                 apiResponse, failure, terminal, cachedClient, trade_simulations,
                 rpcCalls, insertCalls>>
  /\ UNCHANGED <<error, dispatcherVars, console, parser>>

\* (the rejection of a refresh edit is handled as an error of the flow)
RefreshFailedEscalates(r) ==
  /\ Log(r, "Could not update progress, continuing...")
  /\ InnerCatch(r, "refresh", TransportError("editMessageText"))

\* the callback's catch (editError): the rejection is logged, nothing else
RefreshFailed(r) ==
  /\ Log(r, "Could not update progress, continuing...")
  /\ UNCHANGED <<pc, callLog, progressInterval, failure, error>>

\* (the edit goes to the processing message of the handler started last)
RefreshAppliedToLatest(r) ==
  LET latest == CHOOSE q \in Runs : pc[q] # "idle" /\ \A p \in Runs : p > q => pc[p] = "idle"
  IN processingMessage' = [processingMessage EXCEPT ![latest] = RefreshText]

\* the callback's editMessageText(ctx.chat.id, processingMessage.message_id,
\* ...) is applied: ctx and processingMessage are those of the handler that
\* set the timer
RefreshApplied(r) == processingMessage' = [processingMessage EXCEPT ![r] = RefreshText]

\* one refresh editMessageText is applied by the chat, or is rejected (the
\* callback swallows the error); others may remain unanswered
RefreshReturn(r) ==
  /\ refreshInFlight[r]
  /\ \E more \in BOOLEAN : refreshInFlight' = [refreshInFlight EXCEPT ![r] = more]
  /\ \E ok \in BOOLEAN :
       IF ok
       THEN /\ RefreshApplied(r)
            /\ UNCHANGED <<pc, callLog, progressInterval, failure, error, console>>
       ELSE RefreshFailed(r) /\ UNCHANGED processingMessage
  /\ UNCHANGED <<userData, apiResponse, terminal, cachedClient, trade_simulations,
                 rpcCalls, insertCalls>>
  /\ UNCHANGED <<dispatcherVars, parser>>

\* one step of the handler of run r
HandlerStep(r) ==
  \/ AckReturn(r)
  \/ PostReturn(r)
  \/ ConnectReturn(r)
  \/ FindUserReturn(r)
  \/ FindSafeReturn(r)
  \/ RpcReturn(r)
  \/ InsertReturn(r)
  \/ TerminalEditReturn(r)
  \/ CatchAckReturn(r)
  \/ CatchEditReturn(r)
  \/ CatchReplyReturn(r)
  \/ OuterAckReturn(r)
  \/ OuterReplyReturn(r)

Next ==
  \E r \in Runs :
    \/ Receive(r)
    \/ HandlerStep(r)
    \/ TimerTick(r)
    \/ RefreshReturn(r)

Spec == Init /\ [][Next]_vars

\* One flow on its own: the first event, handled by a process whose connection
\* cache an earlier flow may have filled.  Every call the handler awaits
\* eventually returns or fails.
FlowInit ==
  /\ pc = [r \in Runs |-> "idle"]
  /\ userData = [r \in Runs |-> NoEvent]
  /\ callLog = [r \in Runs |-> <<>>]
  /\ progressInterval = [r \in Runs |-> FALSE]
  /\ refreshInFlight = [r \in Runs |-> FALSE]
  /\ processingMessage = [r \in Runs |-> NoMessage]
  /\ apiResponse = [r \in Runs |-> NoResponse]
  /\ failure = [r \in Runs |-> "none"]
  /\ terminal = [r \in Runs |-> NoTerminal]
  /\ cachedClient \in BOOLEAN
  /\ trade_simulations = {}
  /\ rpcCalls = {}
  /\ insertCalls = {}
  /\ error = [r \in Runs |-> NoError]
  /\ DispatcherInit
  /\ console = [r \in Runs |-> [kept |-> TRUE, lines |-> {}]]
  /\ parser = NoParse

FlowNext == Receive(1) \/ HandlerStep(1) \/ TimerTick(1) \/ RefreshReturn(1)

FlowSpec == FlowInit /\ [][FlowNext]_vars

FairFlowSpec == FlowInit /\ [][FlowNext]_vars /\ WF_vars(HandlerStep(1))

\* ---------------------------------------------------------- the Dispatcher
RECURSIVE ReplaceFirst(_, _)
\* s.replace(ch, ''): a string pattern replaces the first occurrence only
ReplaceFirst(s, ch) ==
  IF s = <<>> THEN <<>>
  ELSE IF Head(s) = ch THEN Tail(s)
       ELSE <<Head(s)>> \o ReplaceFirst(Tail(s), ch)

\* const cleanUsername = username.replace('@', '')
cleanUsername(username) == ReplaceFirst(username, "@")

\* (the marker is looked for at the start only)
IncludesAtStart(message, marker) ==
  Len(message) >= Len(marker) /\ SubSeq(message, 1, Len(marker)) = marker

RECURSIVE Includes(_, _)
\* message.includes(marker)
Includes(message, marker) ==
  IF Len(message) < Len(marker) THEN FALSE
  ELSE IF SubSeq(message, 1, Len(marker)) = marker THEN TRUE
       ELSE Includes(Tail(message), marker)

BullishAlertMarker == <<"<rocket> **Bullish Alert** <rocket>">>
SignalBuyMarker == <<"<chart> **Signal**:", " ", "Buy">>

\* (only the alert marker is looked for)
isBullishSignalAlertOnly(message) == Includes(message, BullishAlertMarker)

\* isBullishSignal(message)
isBullishSignal(message) ==
  Includes(message, BullishAlertMarker) \/ Includes(message, SignalBuyMarker)

SimulateTradePrefix ==
  <<"s", "i", "m", "u", "l", "a", "t", "e", "_", "t", "r", "a", "d", "e", "_">>

\* (the token is built from the username as it was passed)
callbackDataRawUsername(now, username, clean) ==
  SimulateTradePrefix \o Decimal(now) \o <<"_">> \o username

\* callback_data: `simulate_trade_${Date.now()}_${cleanUsername}`
callbackData(now, username, clean) ==
  SimulateTradePrefix \o Decimal(now) \o <<"_">> \o clean

\* keyboard.inline_keyboard, as the list of its buttons
keyboard(data) == <<[text |-> "<rocket> Simulate Trade", callback_data |-> data]>>

\* (only the document is checked)
ChatIdMissingOnlyNoDocument(user) == ~user.found

\* findChatIdByUsername: if (!user || !user.chatId)
ChatIdMissing(user) == ~user.found \/ user.chatId = 0

\* new Error('User not found or chat ID not available in database.')
ChatIdNotFoundError ==
  PlainError(<<"User not found or chat ID not available in database.">>)

\* catch (error) of sendMessage: if (error.response) throw new
\* Error(`Telegram API Error: ${error.response.data.description}`); throw error
sendMessageCatch(err) ==
  IF err.hasResponse
  THEN IF err.hasData
       THEN Outcome("threw", "Error", <<"Telegram API Error: ", err.description>>)
       ELSE Outcome("threw", "TypeError",
                    <<"Cannot read properties of undefined (reading 'description')">>)
  ELSE Outcome("threw", "Error", err.message)

\* sendMessage s returns the envelope o
SendEnds(s, o) == send' = [send EXCEPT ![s].pc = o.outcome, ![s].result = o]

\* an error reaches the catch of sendMessage s, which throws in its turn
SendCatches(s, err) ==
  send' = [send EXCEPT ![s].pc = "threw", ![s].caught = err,
                       ![s].result = sendMessageCatch(err)]

\* the message handed to the chat transport
TransportCall(s, client, chatId, text, markup) ==
  [send |-> s, client |-> client, chatId |-> chatId, text |-> text, reply_markup |-> markup]

\* sendMessage(username, message) is called: the username is cleaned and
\* findChatIdByUsername awaits dbConnect (or, the client cached, findOne)
SendMessage(s) ==
  /\ send[s].pc = "idle"
  /\ \A q \in Sends : q < s => send[q].pc # "idle"
  /\ \E username \in SendUsernames, message \in SendMessages :
       send' = [send EXCEPT ![s] =
         [@ EXCEPT !.pc = IF cachedClient THEN "findOne" ELSE "dbConnect",
                   !.username = username, !.message = message,
                   !.cleanUsername = cleanUsername(username)]]
  /\ UNCHANGED <<console, parser, pc, userData, callLog, progressInterval, refreshInFlight,
                 processingMessage, apiResponse, failure, terminal, cachedClient,
                 trade_simulations, rpcCalls, insertCalls, error, transportCalls, chat,
                 callbackQuery, handledBy>>

\* dbConnect of findChatIdByUsername: client.connect() returns or rejects
SendConnectReturn(s) ==
  /\ send[s].pc = "dbConnect"
  /\ \E ok \in BOOLEAN :
       IF ok
       THEN /\ cachedClient' = TRUE
            /\ send' = [send EXCEPT ![s].pc = "findOne"]
       ELSE /\ SendCatches(s, NetworkError("mongodb"))
            /\ UNCHANGED cachedClient
  /\ UNCHANGED <<console, parser, pc, userData, callLog, progressInterval, refreshInFlight,
                 processingMessage, apiResponse, failure, terminal,
                 trade_simulations, rpcCalls, insertCalls, error, transportCalls, chat,
                 callbackQuery, handledBy>>

\* the rest of sendMessage once the chat id is known: the message is
\* classified and handed to Telegraf with the keyboard, or to axios without
SendToTransport(s, chatId, now) ==
  LET message == send[s].message
      isBullish == isBullishSignal(message)
      data == callbackData(now, send[s].username, send[s].cleanUsername)
  IN /\ send' = [send EXCEPT ![s].chatId = chatId, ![s].isBullish = isBullish,
                              ![s].pc = IF isBullish THEN "telegram.sendMessage"
                                        ELSE "axios.post"]
     /\ transportCalls' = Append(transportCalls,
          IF isBullish THEN TransportCall(s, "telegraf", chatId, message, keyboard(data))
          ELSE TransportCall(s, "axios", chatId, message, <<>>))

\* findChatIdByUsername: usersCollection.findOne returns or rejects
SendFindOneReturn(s) ==
  /\ send[s].pc = "findOne"
  /\ \E ok \in BOOLEAN, now \in Clock :
       LET user == FindUser(send[s].cleanUsername)
       IN IF ~ok
          THEN SendCatches(s, NetworkError("mongodb")) /\ UNCHANGED transportCalls
          ELSE IF ChatIdMissing(user)
               THEN SendCatches(s, ChatIdNotFoundError) /\ UNCHANGED transportCalls
               ELSE SendToTransport(s, user.chatId, now)
  /\ UNCHANGED <<console, parser, pc, userData, callLog, progressInterval, refreshInFlight,
                 processingMessage, apiResponse, failure, terminal, cachedClient,
                 trade_simulations, rpcCalls, insertCalls, error, chat,
                 callbackQuery, handledBy>>

\* the call of the transport that sendMessage s awaits
PendingCall(s) ==
  transportCalls[CHOOSE i \in 1..Len(transportCalls) : transportCalls[i].send = s]

\* the message as the chat holds it
Delivered(call) ==
  [send |-> call.send, chatId |-> call.chatId, text |-> call.text,
   reply_markup |-> call.reply_markup]

\* (the rejected send is tried once more)
SendRejectedRetries(s, err) ==
  /\ transportCalls' = Append(transportCalls, PendingCall(s))
  /\ UNCHANGED send

\* what sendMessage does with a rejected send: the catch rethrows
SendRejected(s, err) ==
  /\ SendCatches(s, err)
  /\ UNCHANGED transportCalls

\* this.bot.telegram.sendMessage returns the message or rejects
TelegrafSendReturn(s) ==
  /\ send[s].pc = "telegram.sendMessage"
  /\ \/ /\ chat' = chat \cup {Delivered(PendingCall(s))}
        /\ SendEnds(s, Outcome("returned", "envelope",
                               <<"Message sent successfully with inline keyboard">>))
        /\ UNCHANGED transportCalls
     \/ \E err \in Rejections("telegraf") : SendRejected(s, err) /\ UNCHANGED chat
  /\ UNCHANGED <<console, parser, pc, userData, callLog, progressInterval, refreshInFlight,
                 processingMessage, apiResponse, failure, terminal, cachedClient,
                 trade_simulations, rpcCalls, insertCalls, error,
                 callbackQuery, handledBy>>

\* axios.post(`${this.apiUrl}/sendMessage`) returns response.data with ok
\* true, or with ok false (an Error is thrown in the try), or rejects
AxiosSendReturn(s) ==
  /\ send[s].pc = "axios.post"
  /\ \/ /\ chat' = chat \cup {Delivered(PendingCall(s))}
        /\ SendEnds(s, Outcome("returned", "envelope", <<"ok">>))
        /\ UNCHANGED transportCalls
     \/ \E d \in Descriptions :
          /\ SendCatches(s,
                [client |-> "axios", hasResponse |-> FALSE, hasData |-> FALSE,
                 description |-> d, message |-> <<"Telegram API Error: ", d>>])
          /\ UNCHANGED <<transportCalls, chat>>
     \/ \E err \in Rejections("axios") : SendRejected(s, err) /\ UNCHANGED chat
  /\ UNCHANGED <<console, parser, pc, userData, callLog, progressInterval, refreshInFlight,
                 processingMessage, apiResponse, failure, terminal, cachedClient,
                 trade_simulations, rpcCalls, insertCalls, error,
                 callbackQuery, handledBy>>

\* ------------------------------------------------------- the HTTP routes
\* !x of a field of the body: undefined or the empty string
Falsy(x) == ~x.present \/ x.v = <<>>

\* the bodies of the requests
RequestUsernames == {NoField, Field(<<>>)} \cup {Field(u) : u \in SendUsernames}
RequestMessages == {NoField, Field(<<>>)} \cup {Field(m) : m \in SendMessages}

\* (only the username is validated)
RouteRejectsOnlyUsername(route, request) == Falsy(request.username)

\* if (!username || !message) of /api/telegram/send; if (!username) of
\* /api/telegram/send-test-signal
RouteRejects(route, request) ==
  IF route = "send" THEN Falsy(request.username) \/ Falsy(request.message)
  ELSE Falsy(request.username)

\* The handler of a route: the body is validated; res.status(400) or the
\* call of telegramService.sendMessage
Post(s, route, request, message) ==
  send' = [send EXCEPT ![s] =
    IF RouteRejects(route, request)
    THEN [@ EXCEPT !.pc = "rejected", !.route = route, !.request = request]
    ELSE [@ EXCEPT !.pc = IF cachedClient THEN "findOne" ELSE "dbConnect",
                   !.route = route, !.request = request,
                   !.username = request.username.v, !.message = message,
                   !.cleanUsername = cleanUsername(request.username.v)]]

\* app.post('/api/telegram/send', ...)
PostTelegramSend(s) ==
  /\ send[s].pc = "idle"
  /\ \A q \in Sends : q < s => send[q].pc # "idle"
  /\ \E username \in RequestUsernames, message \in RequestMessages :
       Post(s, "send", [username |-> username, message |-> message], message.v)
  /\ UNCHANGED <<console, parser, pc, userData, callLog, progressInterval, refreshInFlight,
                 processingMessage, apiResponse, failure, terminal, cachedClient,
                 trade_simulations, rpcCalls, insertCalls, error, transportCalls, chat,
                 callbackQuery, handledBy>>

\* app.post('/api/telegram/send-test-signal', ...)
PostSendTestSignal(s) ==
  /\ send[s].pc = "idle"
  /\ \A q \in Sends : q < s => send[q].pc # "idle"
  /\ \E username \in RequestUsernames :
       Post(s, "send-test-signal", [username |-> username, message |-> NoField],
            testSignalMessage)
  /\ UNCHANGED <<console, parser, pc, userData, callLog, progressInterval, refreshInFlight,
                 processingMessage, apiResponse, failure, terminal, cachedClient,
                 trade_simulations, rpcCalls, insertCalls, error, transportCalls, chat,
                 callbackQuery, handledBy>>

\* the status of the response: 400 of the validation, res.json after
\* sendMessage returned, 500 of the error middleware after it threw
ResponseStatus(s) ==
  CASE send[s].route = "none" -> 0
    [] send[s].pc = "rejected" -> 400
    [] send[s].pc = "returned" -> 200
    [] send[s].pc = "threw" -> 500
    [] OTHER -> 0

\* The routes and the Dispatcher
RouteNext ==
  \E s \in Sends :
    \/ PostTelegramSend(s)
    \/ PostSendTestSignal(s)
    \/ SendConnectReturn(s)
    \/ SendFindOneReturn(s)
    \/ TelegrafSendReturn(s)
    \/ AxiosSendReturn(s)

RouteSpec == Init /\ [][RouteNext]_vars

\* ------------------------------------------- callback queries and routing
\* what the chat shows of a lexeme sent with parse_mode Markdown: the bold
\* markers are not part of message.text
Plain(lexeme) ==
  CASE lexeme = "<rocket> **Bullish Alert** <rocket>" -> "<rocket> Bullish Alert <rocket>"
    [] lexeme = "<rocket> **bullish alert** <rocket>" -> "<rocket> bullish alert <rocket>"
    [] lexeme = "<bear> **Bearish Warning** <bear>" -> "<bear> Bearish Warning <bear>"
    [] lexeme = "<temple> **Token**:" -> "<temple> Token:"
    [] lexeme = "<chart> **Signal**:" -> "<chart> Signal:"
    [] lexeme = "<money> **Entry Price**:" -> "<money> Entry Price:"
    [] lexeme = "<stop> **Stop Loss**:" -> "<stop> Stop Loss:"
    [] OTHER -> lexeme

\* ctx.callbackQuery.message.text of a message sent as `text`
MessageText(text) == [i \in 1..Len(text) |-> Plain(text[i])]

\* /simulate_trade_(.+)/ matches data at position i: the prefix, then at
\* least one character that is not a line terminator
MatchAt(data, i) ==
  /\ i + Len(SimulateTradePrefix) <= Len(data)
  /\ SubSeq(data, i, i + Len(SimulateTradePrefix) - 1) = SimulateTradePrefix
  /\ data[i + Len(SimulateTradePrefix)] # "\n"

\* (the pattern of a differently spelled token: simulate-trade_)
SimulateTradeMatchesHyphen(data) ==
  \E i \in 1..Len(data) :
    /\ i + Len(SimulateTradePrefix) <= Len(data)
    /\ SubSeq(data, i, i + 7) = <<"s", "i", "m", "u", "l", "a", "t", "e">>
    /\ data[i + 8] = "-"

\* the trigger /simulate_trade_(.+)/ of the first bot.action
SimulateTradeMatches(data) == \E i \in 1..Len(data) : MatchAt(data, i)

\* ctx.match[1]: the group of the leftmost match, greedy up to a line terminator
Match1(data) ==
  LET i == CHOOSE k \in 1..Len(data) : MatchAt(data, k) /\ \A j \in 1..(k - 1) : ~MatchAt(data, j)
      first == i + Len(SimulateTradePrefix)
      last == CHOOSE e \in first..Len(data) :
                /\ \A j \in first..e : data[j] # "\n"
                /\ (e = Len(data) \/ data[e + 1] = "\n")
  IN SubSeq(data, first, last)

\* payloads of controls this process did not produce: those of other
\* controls, and a token of a message sent before the process started
ForeignPayloads ==
  { <<"h", "e", "l", "p">>,
    SimulateTradePrefix \o <<"3", "_">> \o Spell("alice"),
    SimulateTradePrefix,
    <<"s", "i", "m", "u", "l", "a", "t", "e", "_", "t", "r", "a", "d", "e", "1">> }

\* who presses a control
Clickers == {"alice", "bob", "carol", "dave"}

\* the callback queries the chat can produce: a press of a control of a
\* delivered message, or of a control that carries a foreign payload
Queries ==
  { [data |-> m.reply_markup[i].callback_data, from |-> u,
     messageText |-> MessageText(m.text), chatId |-> m.chatId, origin |-> m.send] :
       m \in {x \in chat : x.reply_markup # <<>>}, i \in {1}, u \in Clickers }
  \cup
  { [data |-> d, from |-> "alice", messageText |-> <<"menu">>, chatId |-> 11, origin |-> 0] :
       d \in ForeignPayloads }

\* (the username is read from the token instead of ctx.from)
SimulateTradeActionTrustsToken(r, q) ==
  LET token == Match1(q.data)
      k == CHOOSE i \in 1..Len(token) : token[i] = "_" /\ \A j \in 1..(i - 1) : token[j] # "_"
      name == SubSeq(token, k + 1, Len(token))
  IN /\ handledBy' = [handledBy EXCEPT ![r] = "simulate_trade"]
     /\ userData' = [userData EXCEPT ![r] =
          [username |-> CHOOSE u \in Usernames : Spell(u) = name, chatId |-> q.chatId,
           messageId |-> 7, messageText |-> q.messageText, callbackQueryId |-> 70,
           callbackData |-> token]]
     /\ AfterCapture(r)

\* (the handler passes the query on to the next bot.action as well)
SimulateTradeActionCallsNext(r, q) ==
  /\ handledBy' = [handledBy EXCEPT ![r] = "simulate_trade"]
  /\ userData' = [userData EXCEPT ![r] =
       [username |-> q.from, chatId |-> q.chatId, messageId |-> 7,
        messageText |-> q.messageText, callbackQueryId |-> 70,
        callbackData |-> Match1(q.data)]]
  /\ pc' = [pc EXCEPT ![r] = "answerCbQuery"]
  /\ callLog' = [callLog EXCEPT ![r] = @ \o <<"answerCbQuery", "unknownAnswerCbQuery">>]

\* bot.action(/simulate_trade_(.+)/, ...): the handler captures userData and
\* issues answerCbQuery
SimulateTradeAction(r, q) ==
  /\ handledBy' = [handledBy EXCEPT ![r] = "simulate_trade"]
  /\ userData' = [userData EXCEPT ![r] =
       [username |-> q.from, chatId |-> q.chatId, messageId |-> 7,
        messageText |-> q.messageText, callbackQueryId |-> 70,
        callbackData |-> Match1(q.data)]]
  /\ AfterCapture(r)

\* (the generic handler also posts a reply)
UnknownActionReplies(r, q) ==
  /\ handledBy' = [handledBy EXCEPT ![r] = "unknown"]
  /\ pc' = [pc EXCEPT ![r] = "ignored"]
  /\ callLog' = [callLog EXCEPT ![r] = @ \o <<"unknownAnswerCbQuery", "reply">>]
  /\ UNCHANGED userData

\* bot.action(/.*/, ...): ctx.answerCbQuery('Unknown action'), not awaited
UnknownAction(r, q) ==
  /\ handledBy' = [handledBy EXCEPT ![r] = "unknown"]
  /\ pc' = [pc EXCEPT ![r] = "ignored"]
  /\ callLog' = [callLog EXCEPT ![r] = Append(@, "unknownAnswerCbQuery")]
  /\ UNCHANGED userData

\* the bot receives a callback query: the first bot.action whose trigger
\* matches the data handles it
ReceiveCallbackQuery(r) ==
  /\ pc[r] = "idle"
  /\ \A q \in Runs : q < r => pc[q] # "idle"
  /\ \E q \in Queries :
       /\ callbackQuery' = [callbackQuery EXCEPT ![r] = q]
       /\ IF SimulateTradeMatches(q.data)
          THEN SimulateTradeAction(r, q)
          ELSE UnknownAction(r, q)
  /\ UNCHANGED <<progressInterval, refreshInFlight, processingMessage, apiResponse,
                 failure, terminal, cachedClient, trade_simulations, rpcCalls,
                 insertCalls, error, send, transportCalls, chat, console, parser>>

\* presses of the control of one signal message by alice and by carol, the
\* token of the control naming the presser, the other of the two, or dave
TokenQueries ==
  { [data |-> SimulateTradePrefix \o <<"7", "_">> \o Spell(t), from |-> u,
     messageText |-> SignalText, chatId |-> 11, origin |-> 0] :
       t \in {"alice", "carol", "dave"}, u \in {"alice", "carol"} }

\* the bot receives a press of such a control
ReceivePress(r) ==
  /\ pc[r] = "idle"
  /\ \A q \in Runs : q < r => pc[q] # "idle"
  /\ \E q \in TokenQueries :
       /\ callbackQuery' = [callbackQuery EXCEPT ![r] = q]
       /\ IF SimulateTradeMatches(q.data)
          THEN SimulateTradeAction(r, q)
          ELSE UnknownAction(r, q)
  /\ UNCHANGED <<progressInterval, refreshInFlight, processingMessage, apiResponse,
                 failure, terminal, cachedClient, trade_simulations, rpcCalls,
                 insertCalls, error, send, transportCalls, chat, console, parser>>

\* Two presses, handled concurrently
TokenNext == \E r \in Runs : ReceivePress(r) \/ HandlerStep(r)

TokenSpec == Init /\ [][TokenNext]_vars

\* The Dispatcher, the chat and one flow of the Correlator
DispatchNext ==
  \/ \E s \in Sends :
       \/ SendMessage(s)
       \/ SendConnectReturn(s)
       \/ SendFindOneReturn(s)
       \/ TelegrafSendReturn(s)
       \/ AxiosSendReturn(s)
  \/ ReceiveCallbackQuery(1)
  \/ HandlerStep(1)
  \/ TimerTick(1)
  \/ RefreshReturn(1)

DispatchSpec == Init /\ [][DispatchNext]_vars

\* ------------------------------------------------- the parser on its own
RECURSIVE StripTrailingZeros(_)
StripTrailingZeros(digits) ==
  IF digits # <<>> /\ digits[Len(digits)] = "0"
  THEN StripTrailingZeros(SubSeq(digits, 1, Len(digits) - 1)) ELSE digits

RECURSIVE PadLeft(_, _)
PadLeft(digits, n) == IF Len(digits) < n THEN PadLeft(<<"0">> \o digits, n) ELSE digits

\* `${x}` of the number x = n / Unit: decimal notation from 0.000001 on,
\* exponent notation below
NumberToString(n) ==
  IF n = 0 \/ n >= Unit \div 1000000
  THEN LET frac == StripTrailingZeros(PadLeft(Decimal(n % Unit), FractionDigits))
       IN Decimal(n \div Unit) \o (IF frac = <<>> THEN <<>> ELSE <<".">> \o frac)
  ELSE LET digits == StripTrailingZeros(Decimal(n))
       IN <<Head(digits)>> \o (IF Len(digits) > 1 THEN <<".">> \o Tail(digits) ELSE <<>>)
            \o <<"e", "-">> \o Decimal(FractionDigits - Len(Decimal(n)) + 1)

\* the labels of a signal message, written plain or in bold
Label(field, labels) ==
  CASE field = "token" -> IF labels = "bold" THEN "<temple> **Token**:" ELSE "<temple> Token:"
    [] field = "entryPrice" ->
         IF labels = "bold" THEN "<money> **Entry Price**:" ELSE "<money> Entry Price:"
    [] field = "tp1" -> "TP1:"
    [] field = "tp2" -> "TP2:"
    [] field = "sl" -> IF labels = "bold" THEN "<stop> **Stop Loss**:" ELSE "<stop> Stop Loss:"

\* a signal message built from the fields: one line per field that is there
BuildSignalMessage(signal, labels) ==
  LET PriceLine(field) ==
        IF signal[field] = Null THEN <<>>
        ELSE <<Label(field, labels), " ", "$">> \o NumberToString(signal[field]) \o <<"\n">>
  IN <<"<rocket> Bullish Alert <rocket>", "\n">>
       \o (IF signal.token = <<>> THEN <<>>
           ELSE <<Label("token", labels), " ">> \o signal.token
                  \o <<" ", "(", "name", ")", "\n">>)
       \o PriceLine("entryPrice") \o PriceLine("tp1") \o PriceLine("tp2") \o PriceLine("sl")

\* the tokens of the signals: of capital letters, with a digit, with small
\* letters, or none
SignalTokens ==
  { <<"U", "N", "I">>, <<"E", "T", "H">>, <<"1", "I", "N", "C", "H">>,
    <<"W", "i", "F">>, <<>> }

\* the prices of the signals: none, the smallest the model tells from zero,
\* 0.05, 5 and 9.37
SignalPrices == {Null, 1, Unit \div 20, 5 * Unit, 937 * (Unit \div 100)}

Signals ==
  [token : SignalTokens, tp1 : SignalPrices, tp2 : SignalPrices, sl : SignalPrices,
   entryPrice : SignalPrices]

\* parseSignalMessage is called with a message built from a signal
ParseInit ==
  /\ pc = [r \in Runs |-> "idle"]
  /\ userData = [r \in Runs |-> NoEvent]
  /\ callLog = [r \in Runs |-> <<>>]
  /\ progressInterval = [r \in Runs |-> FALSE]
  /\ refreshInFlight = [r \in Runs |-> FALSE]
  /\ processingMessage = [r \in Runs |-> NoMessage]
  /\ apiResponse = [r \in Runs |-> NoResponse]
  /\ failure = [r \in Runs |-> "none"]
  /\ terminal = [r \in Runs |-> NoTerminal]
  /\ cachedClient = FALSE
  /\ trade_simulations = {}
  /\ rpcCalls = {}
  /\ insertCalls = {}
  /\ error = [r \in Runs |-> NoError]
  /\ DispatcherInit
  /\ console = [r \in Runs |-> [kept |-> FALSE, lines |-> {}]]
  /\ parser \in { [NoParse EXCEPT !.pc = "called", !.signal = signal, !.labels = labels,
                                  !.message = BuildSignalMessage(signal, labels)] :
                    signal \in Signals, labels \in {"plain", "bold"} }

\* parseSignalMessage returns
ParseReturn ==
  /\ parser.pc = "called"
  /\ parser' = [parser EXCEPT !.pc = "returned",
                               !.result = parseSignalMessage(parser.message)]
  /\ UNCHANGED <<pc, userData, callLog, progressInterval, refreshInFlight,
                 processingMessage, apiResponse, failure, terminal, cachedClient,
                 trade_simulations, rpcCalls, insertCalls, error, dispatcherVars, console>>

ParseSpec == ParseInit /\ [][ParseReturn]_vars

\* ---------------------------------------------- the current-price estimate
\* the prices of the signals the estimate is computed from: none, zero, 8.37
\* and 11.37
EstimatePrices == {Null, 0, 837 * (Unit \div 100), 1137 * (Unit \div 100)}

EstimateSignals ==
  [token : {<<"U", "N", "I">>}, tp1 : EstimatePrices, tp2 : {Null, 1337 * (Unit \div 100)},
   sl : EstimatePrices, entryPrice : EstimatePrices]

\* handleSimulateTradeRequest parses the text of a signal message
EstimateInit ==
  /\ pc = [r \in Runs |-> "idle"]
  /\ userData = [r \in Runs |-> NoEvent]
  /\ callLog = [r \in Runs |-> <<>>]
  /\ progressInterval = [r \in Runs |-> FALSE]
  /\ refreshInFlight = [r \in Runs |-> FALSE]
  /\ processingMessage = [r \in Runs |-> NoMessage]
  /\ apiResponse = [r \in Runs |-> NoResponse]
  /\ failure = [r \in Runs |-> "none"]
  /\ terminal = [r \in Runs |-> NoTerminal]
  /\ cachedClient = TRUE
  /\ trade_simulations = {}
  /\ rpcCalls = {}
  /\ insertCalls = {}
  /\ error = [r \in Runs |-> NoError]
  /\ DispatcherInit
  /\ console = [r \in Runs |-> [kept |-> FALSE, lines |-> {}]]
  /\ parser \in { [NoParse EXCEPT !.pc = "called", !.signal = signal,
                                  !.message = BuildSignalMessage(signal, "plain")] :
                    signal \in EstimateSignals }

\* simulateTrade(signalData, username, safeAddress) is called with the parsed
\* fields and a resolved identity: currentPrice is computed and apiBody is
\* posted
SimulateTradePost ==
  /\ parser.pc = "returned"
  /\ rpcCalls' = rpcCalls \cup
       {[run |-> 0,
         body |-> apiBody(parser.result, fetchUserData("alice").username,
                          fetchUserData("alice").safeAddress)]}
  /\ parser' = [parser EXCEPT !.pc = "posted"]
  /\ UNCHANGED <<pc, userData, callLog, progressInterval, refreshInFlight,
                 processingMessage, apiResponse, failure, terminal, cachedClient,
                 trade_simulations, insertCalls, error, dispatcherVars, console>>

EstimateNext == ParseReturn \/ SimulateTradePost

EstimateSpec == EstimateInit /\ [][EstimateNext]_vars

\* ============================================================== properties
Done(r) == pc[r] = "done"

\* The states of the Correlator's state machine, read off the handler
FlowState(r) ==
  CASE pc[r] = "idle" -> "Idle"
    [] pc[r] = "answerCbQuery" -> "Received"
    [] pc[r] = "reply" -> "Acknowledged"
    [] pc[r] = "done" ->
         IF failure[r] = "none" /\ terminal[r].text.kind \in {"success", "initiated"}
         THEN "Succeeded" ELSE "Failed"
    [] OTHER -> "Processing"

Issued(r, call) == \E i \in 1..Len(callLog[r]) : callLog[r][i] = call
TimesIssued(r, call) == Cardinality({i \in 1..Len(callLog[r]) : callLog[r][i] = call})

\* the errors that reach the catch of the inner try
InnerFailures == {"connect", "identity", "rpc", "insert", "format", "edit"}

RECURSIVE Unescape(_)
\* the text with every backslash-underscore pair read back as an underscore
Unescape(s) ==
  IF s = <<>> THEN <<>>
  ELSE IF Len(s) >= 2 /\ s[1] = "\\" /\ s[2] = "_" THEN <<"_">> \o Unescape(Tail(Tail(s)))
       ELSE <<Head(s)>> \o Unescape(Tail(s))

\* no underscore of s is without a backslash before it
NoBareUnderscore(s) ==
  \A i \in 1..Len(s) : s[i] = "_" => (i > 1 /\ s[i - 1] = "\\")

\* ---- C1
\* C1: once the terminal edit (result or error) of the processing message has
\* been applied, no refresh edit is applied to it: the chat keeps showing the
\* terminal text.
C1_NoRefreshAfterTerminalEdit ==
  \A r \in Runs : terminal[r].via = "edit" => processingMessage[r] = terminal[r].text

\* ---- C2
RemoteCalls == {"dbConnect", "findUser", "findSafe", "axios.post", "insertOne"}

\* C2: every identity lookup, RPC and record insert of an event comes after the
\* acknowledgement was issued and the processing message was posted: they are
\* the first two calls of the handler, and the chat holds the message.
C2_AckAndPostBeforeRemoteCalls ==
  \A r \in Runs : \A i \in 1..Len(callLog[r]) :
    callLog[r][i] \in RemoteCalls =>
      /\ i > 2
      /\ callLog[r][1] = "answerCbQuery"
      /\ callLog[r][2] = "reply"
      /\ processingMessage[r] # NoMessage

C2_Witness ==
  \E r \in Runs : Issued(r, "findUser") /\ Issued(r, "axios.post") /\ Issued(r, "insertOne")

\* ---- C3
\* C3 as stated: every finished error path has left a terminal message the
\* user sees, by an edit or by a plain reply.
C3_ErrorPathEndsVisible ==
  \A r \in Runs :
    Done(r) /\ failure[r] \in InnerFailures => terminal[r].via \in {"edit", "reply"}

\* C3 amended: every finished error path has edited the processing message to
\* the error text, or (that edit rejected) posted the error text as a plain
\* reply, or has had the error edit, the fallback reply and the outer catch's
\* reply all rejected by the chat transport, and then shows nothing.
C3_ErrorPathEndsVisibleUnlessRepliesRejected ==
  \A r \in Runs :
    Done(r) /\ failure[r] \in InnerFailures =>
      \/ terminal[r] = [via |-> "edit", text |-> ErrorText] /\ ~Issued(r, "catchReply")
      \/ /\ terminal[r] = [via |-> "reply", text |-> ErrorText]
         /\ Issued(r, "catchEdit") /\ Issued(r, "catchReply")
      \/ /\ terminal[r] = NoTerminal
         /\ Issued(r, "catchEdit") /\ Issued(r, "catchReply") /\ Issued(r, "outerReply")

C3_Witness ==
  \E r \in Runs :
    /\ Done(r) /\ failure[r] = "insert"
    /\ terminal[r] = [via |-> "reply", text |-> ErrorText]

\* ---- C4
\* C4: a received event's flow eventually ends in Succeeded or Failed.
C4_ReceivedLeadsToTerminal ==
  \A r \in Runs : (pc[r] # "idle") ~> (FlowState(r) \in {"Succeeded", "Failed"})

C4_Witness ==
  \E r \in Runs : FlowState(r) = "Failed" /\ Issued(r, "outerReply") /\ refreshInFlight[r]

\* ---- C5
\* what the success report must show of a response, before escaping
SuccessFields(resp) ==
  <<Render(resp.signalId), Render(Or(resp.networkKey, Str(NA))),
    Render(Or(resp.safeAddress, Str(NA))), Render(Or(resp.tradeId, Str(NA))),
    Render(Or(resp.pairStatus, Str(NA)))>>

ShowsSuccessReport(r) ==
  /\ terminal[r].via = "edit"
  /\ terminal[r].text.kind = "success"
  /\ Len(terminal[r].text.fields) = 5
  /\ \A i \in 1..5 : Unescape(terminal[r].text.fields[i]) = SuccessFields(apiResponse[r])[i]

\* C5 as stated: a flow whose RPC returned status "success" ends Succeeded with
\* the success report edited into the processing message.
C5_SuccessResponseEndsSucceeded ==
  \A r \in Runs :
    Done(r) /\ apiResponse[r].status = "success" =>
      FlowState(r) = "Succeeded" /\ ShowsSuccessReport(r)

\* the insert of run r was rejected by the store
InsertRejected(r) ==
  /\ Issued(r, "insertOne") /\ pc[r] # "insertOne"
  /\ \A d \in trade_simulations : d.id # r

\* C5 amended: a flow whose RPC returned status "success" ends Succeeded with
\* the success report edited in place, provided the record insert succeeded,
\* the reply formatted (safeAddress and tradeId are strings or absent) and
\* the terminal edit was accepted; otherwise it ends Failed, and the terminal
\* message, if the transport accepted one, is the generic error text.
C5_SuccessResponseEndsSucceededUnlessLaterStepFails ==
  \A r \in Runs :
    Done(r) /\ apiResponse[r].status = "success" =>
      IF ~InsertRejected(r) /\ ~FormatThrows(apiResponse[r]) /\ ~Issued(r, "catchEdit")
      THEN FlowState(r) = "Succeeded" /\ ShowsSuccessReport(r)
      ELSE FlowState(r) = "Failed" /\ terminal[r].text \in {ErrorText, NoMessage}

C5_Witness ==
  \E r \in Runs :
    /\ Done(r) /\ apiResponse[r].status = "success"
    /\ ShowsSuccessReport(r) /\ FlowState(r) = "Succeeded"

\* ---- C6
\* the failure reason of a response
FailureReason(resp) == Or(resp.error, Or(resp.pairError, Str(UnknownError)))

ShowsEscapedReason(r) ==
  /\ terminal[r].text.kind = "failed"
  /\ Len(terminal[r].text.fields) = 3
  /\ Unescape(terminal[r].text.fields[3]) = FailureReason(apiResponse[r]).v
  /\ NoBareUnderscore(terminal[r].text.fields[3])

\* the RPC of run r raised an error
RpcRaised(r) == Issued(r, "axios.post") /\ pc[r] # "axios.post" /\ ~Issued(r, "insertOne")

\* C6 as stated: a flow whose RPC returned status "failed" or raised an error
\* ends Failed with a terminal message that contains the escaped failure reason.
C6_FailedOrRaisedShowsReason ==
  \A r \in Runs :
    Done(r) /\ (apiResponse[r].status = "failed" \/ RpcRaised(r)) =>
      FlowState(r) = "Failed" /\ ShowsEscapedReason(r)

\* C6 amended: both end Failed.  A response with status "failed" is reported
\* with its failure reason, underscores escaped, provided the record insert
\* succeeded, the reason is a string or absent and the terminal edit was
\* accepted.  When the RPC raises an error (or one of those steps fails) the
\* terminal message, if the transport accepted one, is the generic error text,
\* which does not contain the reason.
C6_FailedShowsReasonRaisedShowsGenericError ==
  \A r \in Runs :
    Done(r) /\ (apiResponse[r].status = "failed" \/ RpcRaised(r)) =>
      /\ FlowState(r) = "Failed"
      /\ IF /\ apiResponse[r].status = "failed"
            /\ ~InsertRejected(r) /\ ~FormatThrows(apiResponse[r]) /\ ~Issued(r, "catchEdit")
         THEN terminal[r].via = "edit" /\ ShowsEscapedReason(r)
         ELSE terminal[r].text \in {ErrorText, NoMessage}

C6_Witness ==
  \E r, q \in Runs :
    /\ Done(r) /\ apiResponse[r].status = "failed" /\ ShowsEscapedReason(r)
    /\ \E i \in 1..Len(terminal[r].text.fields[3]) : terminal[r].text.fields[3][i] = "_"
    /\ Done(q) /\ RpcRaised(q) /\ terminal[q].text = ErrorText

\* ---- C7
InsertsOf(r) == {c \in insertCalls : c.run = r}
RecordsOf(r) == {d \in trade_simulations : d.id = r}

\* the identity the directory holds for a username
TradingIdentity(u) == usersCollection[u].twitterId
CustodialAddress(u) == safesCollection[usersCollection[u].twitterId].address

\* the record embeds the event, the parsed signal, the identity, the address
\* and the raw response of run r
Embeds(doc, r) ==
  /\ doc.userData = userData[r]
  /\ doc.signalData = parseSignalMessage(userData[r].messageText)
  /\ doc.twitterId = TradingIdentity(userData[r].username)
  /\ doc.safeAddress = CustodialAddress(userData[r].username)
  /\ doc.apiResponse = apiResponse[r]
  /\ doc.apiResponse \in Responses

\* C7: once the RPC of a run has returned a response, of whatever shape, the
\* Orchestrator has made exactly one insert for the run, of a record that
\* embeds the event, the parsed signal, the resolved identity and address and
\* that response; what the collection holds for the run is that record and
\* nothing else (nothing while the insert is pending or if the store rejected
\* it); and no insert is made for a run whose RPC has not returned.
C7_OneRecordPerResponse ==
  \A r \in Runs :
    /\ apiResponse[r] # NoResponse =>
         /\ TimesIssued(r, "insertOne") = 1
         /\ Cardinality(InsertsOf(r)) = 1
         /\ \A c \in InsertsOf(r) : Embeds(c.doc, r) /\ RecordsOf(r) \subseteq {c.doc}
         /\ (Done(r) /\ failure[r] # "insert") => Cardinality(RecordsOf(r)) = 1
    /\ apiResponse[r] = NoResponse => InsertsOf(r) = {} /\ RecordsOf(r) = {}

C7_Witness ==
  \E r, q \in Runs :
    /\ Done(r) /\ apiResponse[r].status = "pending" /\ Cardinality(RecordsOf(r)) = 1
    /\ Done(q) /\ apiResponse[q].status = "failed" /\ Cardinality(RecordsOf(q)) = 1

\* ---- C8
\* C8: when the store rejects the insert, the flow ends Failed (the generic
\* error text, never a report of the response), although the RPC of the run
\* was called and returned a response, and the collection holds no record of it.
C8_InsertFailureEndsFailed ==
  \A r \in Runs :
    InsertRejected(r) =>
      /\ failure[r] = "insert"
      /\ pc[r] # "editMessageText"
      /\ terminal[r].text \in {ErrorText, NoMessage}
      /\ Done(r) => FlowState(r) = "Failed"
      /\ apiResponse[r] \in Responses
      /\ \E c \in rpcCalls : c.run = r
      /\ RecordsOf(r) = {}

C8_Witness ==
  \E r \in Runs :
    /\ InsertRejected(r) /\ Done(r) /\ apiResponse[r].status = "success"
    /\ terminal[r] = [via |-> "edit", text |-> ErrorText]

\* ---- C9
\* the directory does not resolve the username to an identity and an address
Unresolvable(u) ==
  \/ ~usersCollection[u].found
  \/ usersCollection[u].twitterId = ""
  \/ usersCollection[u].twitterId \notin DOMAIN safesCollection
  \/ ~safesCollection[usersCollection[u].twitterId].found
  \/ safesCollection[usersCollection[u].twitterId].address = <<>>

\* C9: for an event whose username does not resolve (or whose lookups raise
\* an error) the RPC is never called, no record is inserted, and the flow,
\* once over, is Failed with nothing but the generic error text.
C9_IdentityFailureAbortsFlow ==
  \A r \in Runs :
    (failure[r] = "identity" \/ (userData[r] # NoEvent /\ Unresolvable(userData[r].username))) =>
      /\ \A c \in rpcCalls : c.run # r
      /\ ~Issued(r, "axios.post") /\ ~Issued(r, "insertOne")
      /\ InsertsOf(r) = {} /\ RecordsOf(r) = {}
      /\ Done(r) => FlowState(r) = "Failed" /\ terminal[r].text \in {ErrorText, NoMessage}
      /\ (Done(r) /\ Issued(r, "findUser")) => failure[r] = "identity"

C9_Witness ==
  \E r, q \in Runs :
    /\ Done(r) /\ userData[r].username = "carol" /\ failure[r] = "identity"
    /\ Issued(r, "findSafe") /\ terminal[r] = [via |-> "edit", text |-> ErrorText]
    /\ Done(q) /\ userData[q].username = "dave" /\ failure[q] = "identity"

\* ---- C10
\* C10: two runs that handle the same interaction event, and whose lookups
\* resolve, each call the RPC and each insert a record: two requests with the
\* same body, two inserts, and two records in the collection once the store
\* has accepted both.
C10_SameEventHandledTwice ==
  \A r, q \in Runs :
    (r # q /\ userData[r] = userData[q] /\ Issued(r, "insertOne") /\ Issued(q, "insertOne")) =>
      /\ Cardinality({c \in rpcCalls : c.run \in {r, q}}) = 2
      /\ \A c, e \in {x \in rpcCalls : x.run \in {r, q}} : c.body = e.body
      /\ Cardinality(InsertsOf(r) \cup InsertsOf(q)) = 2
      /\ (Done(r) /\ Done(q) /\ failure[r] # "insert" /\ failure[q] # "insert") =>
            Cardinality({d \in trade_simulations : d.userData = userData[r]}) = 2

C10_Witness ==
  \E r, q \in Runs :
    /\ r # q /\ userData[r] = userData[q] /\ Done(r) /\ Done(q)
    /\ apiResponse[r] = apiResponse[q]
    /\ Cardinality({d \in trade_simulations : d.userData = userData[r]}) = 2

\* ---- C11
\* the transport calls made for send s, and the messages delivered for it
CallsOf(s) == {i \in 1..Len(transportCalls) : transportCalls[i].send = s}
MessagesOf(s) == {m \in chat : m.send = s}
Ended(s) == send[s].pc \in {"returned", "threw"}

\* the directory holds no chat id for the name: no document with this
\* telegramId, or a document without chatId
NoChatIdOnRecord(name) ==
  \A u \in Usernames :
    Spell(u) = name => (~usersCollection[u].found \/ usersCollection[u].chatId = 0)

\* C11: a send whose (normalized) username has no user document, or a document
\* without a chat id, hands nothing to the chat transport, delivers nothing,
\* and ends by throwing the not-found error (or the store's own error when the
\* lookup itself was rejected).
C11_NoChatIdFailsBeforeTransport ==
  \A s \in Sends :
    (send[s].pc # "idle" /\ NoChatIdOnRecord(send[s].cleanUsername)) =>
      /\ CallsOf(s) = {} /\ MessagesOf(s) = {}
      /\ send[s].pc \in {"dbConnect", "findOne", "threw"}
      /\ send[s].pc = "threw" =>
           \/ /\ send[s].result.name = "Error"
              /\ send[s].result.message =
                   <<"User not found or chat ID not available in database.">>
           \/ send[s].caught = NetworkError("mongodb")

C11_Witness ==
  \E s \in Sends :
    /\ send[s].username = Spell("erin") /\ send[s].pc = "threw"
    /\ send[s].result.message = <<"User not found or chat ID not available in database.">>
    /\ transportCalls = <<>>

\* ---- C12
\* pat occurs in text at position i
OccursAt(text, pat, i) ==
  /\ i + Len(pat) - 1 <= Len(text)
  /\ \A k \in 1..Len(pat) : text[i + k - 1] = pat[k]

\* the text contains one of the two fixed markers
Actionable(text) ==
  \E i \in 1..Len(text) :
    \/ OccursAt(text, <<"<rocket> **Bullish Alert** <rocket>">>, i)
    \/ OccursAt(text, <<"<chart> **Signal**:", " ", "Buy">>, i)

\* C12: a message handed to the transport carries an action control exactly
\* when its text is actionable; a non-actionable one goes out as plain text
\* without reply_markup, and no callback query, hence no flow of the
\* Correlator, originates from a message sent without a control.
C12_ControlIffActionable ==
  /\ \A i \in 1..Len(transportCalls) :
       /\ (transportCalls[i].reply_markup # <<>>) <=> Actionable(transportCalls[i].text)
       /\ ~Actionable(transportCalls[i].text) =>
            transportCalls[i].client = "axios" /\ transportCalls[i].reply_markup = <<>>
  /\ \A m \in chat : (m.reply_markup # <<>>) <=> Actionable(m.text)
  /\ \A r \in Runs :
       callbackQuery[r].origin # 0 =>
         \E m \in chat : /\ m.send = callbackQuery[r].origin
                         /\ Actionable(m.text) /\ m.reply_markup # <<>>

C12_Witness ==
  /\ \E m \in chat :
       /\ m.reply_markup = <<>>
       /\ \E i \in 1..Len(m.text) : m.text[i] = "<rocket> **bullish alert** <rocket>"
  /\ \A r \in Runs : pc[r] = "idle"
  /\ \A s \in Sends : Ended(s)

\* ---- C13
Digits == {"0", "1", "2", "3", "4", "5", "6", "7", "8", "9"}

\* data is simulate_trade_<digits>_<name>
HasTokenForm(data, name) ==
  \E n \in 1..Len(data) :
    /\ Len(data) = Len(SimulateTradePrefix) + n + 1 + Len(name)
    /\ SubSeq(data, 1, Len(SimulateTradePrefix)) = SimulateTradePrefix
    /\ \A k \in 1..n : data[Len(SimulateTradePrefix) + k] \in Digits
    /\ data[Len(SimulateTradePrefix) + n + 1] = "_"
    /\ SubSeq(data, Len(SimulateTradePrefix) + n + 2, Len(data)) = name

\* C13: every actionable message handed to the transport carries exactly one
\* action control, whose callback payload is simulate_trade_<digits>_<the
\* normalized username the send was addressed to>.
C13_OneControlWithToken ==
  \A i \in 1..Len(transportCalls) :
    Actionable(transportCalls[i].text) =>
      /\ Len(transportCalls[i].reply_markup) = 1
      /\ HasTokenForm(transportCalls[i].reply_markup[1].callback_data,
                      send[transportCalls[i].send].cleanUsername)

C13_Witness ==
  \E i \in 1..Len(transportCalls) :
    /\ send[transportCalls[i].send].username = <<"@">> \o Spell("alice")
    /\ Len(transportCalls[i].reply_markup) = 1
    /\ transportCalls[i].reply_markup[1].callback_data =
         SimulateTradePrefix \o <<"1", "7", "0", "0", "_">> \o Spell("alice")

\* ---- C14
\* C14 as stated: every send call that is over made exactly one send attempt.
C14_EverySendOneMessage ==
  \A s \in Sends : Ended(s) => Cardinality(CallsOf(s)) = 1

\* C14 amended: a send call makes at most one send attempt and never retries:
\* exactly one once its chat id is resolved, none when the lookup fails; a
\* call that returned delivered exactly one message, a call the transport
\* rejected threw after its single attempt and delivered none.
C14_OneAttemptOnceChatIdResolved ==
  \A s \in Sends :
    /\ Cardinality(CallsOf(s)) <= 1
    /\ Cardinality(MessagesOf(s)) <= Cardinality(CallsOf(s))
    /\ Cardinality(CallsOf(s)) = 1 <=> send[s].chatId # 0
    /\ send[s].chatId # 0 <=>
         (send[s].pc \in {"telegram.sendMessage", "axios.post", "returned"}
          \/ send[s].caught.client \in {"telegraf", "axios"})
    /\ send[s].pc = "returned" => Cardinality(MessagesOf(s)) = 1
    /\ send[s].pc = "threw" => MessagesOf(s) = {}

C14_Witness ==
  \E s \in Sends :
    /\ send[s].pc = "threw" /\ send[s].caught \in Rejections("telegraf")
    /\ Cardinality(CallsOf(s)) = 1

\* ---- C15
\* C15: a send the chat transport rejected with a description throws an Error
\* whose message includes that description, whichever client sent it.
C15_RejectedSendReportsDescription ==
  \A s \in Sends :
    (send[s].pc = "threw" /\ send[s].caught.description # "") =>
      /\ send[s].result.name = "Error"
      /\ \E i \in 1..Len(send[s].result.message) :
           send[s].result.message[i] = send[s].caught.description

\* ---- C16
\* the username without its leading at-sign, if it has one
StripLeadingAt(username) ==
  IF username # <<>> /\ Head(username) = "@" THEN Tail(username) ELSE username

\* C16: the normalized username of a send is the username without its leading
\* at-sign; a username that does not start with an at-sign is left unchanged.
C16_StripsOnlyLeadingAtSign ==
  \A s \in Sends :
    send[s].pc # "idle" => send[s].cleanUsername = StripLeadingAt(send[s].username)

\* ---- C17
\* the Classifier was evaluated by send s
Classified(s) == send[s].chatId # 0

\* C17: the Classifier's verdict on a text is true exactly when the text
\* contains the bullish-alert marker or the signal-buy marker, spelled and
\* cased as fixed; it is a boolean for every text.
C17_ClassifierExactlyMarkers ==
  \A s \in Sends :
    Classified(s) =>
      /\ send[s].isBullish \in BOOLEAN
      /\ send[s].isBullish <=> Actionable(send[s].message)

C17_Witness ==
  \E s \in Sends :
    /\ Classified(s) /\ send[s].isBullish
    /\ ~OccursAt(send[s].message, <<"<rocket> **Bullish Alert** <rocket>">>, 1)
    /\ OccursAt(send[s].message, <<"<chart> **Signal**:", " ", "Buy">>, 7)

\* ---- C18
\* the payload holds simulate_trade_ followed by a character of the same line
HasSimulateTradeToken(data) ==
  \E i \in 1..Len(data) :
    /\ i + 15 <= Len(data)
    /\ \A k \in 1..15 : data[i + k - 1] = SimulateTradePrefix[k]
    /\ data[i + 15] # "\n"

\* C18: a callback query whose payload does not match the simulate-trade
\* pattern is taken by the generic handler, which only acknowledges it: no
\* message is posted or edited, nothing is captured, no lookup, RPC or insert
\* is made for it.
C18_UnmatchedOnlyAcknowledged ==
  \A r \in Runs :
    (callbackQuery[r] # NoQuery /\ ~HasSimulateTradeToken(callbackQuery[r].data)) =>
      /\ handledBy[r] = "unknown"
      /\ callLog[r] = <<"unknownAnswerCbQuery">>
      /\ pc[r] = "ignored"
      /\ userData[r] = NoEvent
      /\ processingMessage[r] = NoMessage /\ terminal[r] = NoTerminal
      /\ ~progressInterval[r] /\ ~refreshInFlight[r]
      /\ \A c \in rpcCalls : c.run # r
      /\ InsertsOf(r) = {} /\ RecordsOf(r) = {}

C18_Witness ==
  \E r \in Runs :
    /\ callbackQuery[r].data = SimulateTradePrefix
    /\ handledBy[r] = "unknown" /\ pc[r] = "ignored"
    /\ cachedClient /\ chat # {}

\* ---- C19
\* C19: every token the Dispatcher puts on a control matches the Correlator's
\* pattern, and a callback query carrying it is taken by the simulate-trade
\* handler, never by the generic one; the handler reads back the token's
\* timestamp and username.
C19_TokenRoutesToSimulateTrade ==
  /\ \A i \in 1..Len(transportCalls) :
       \A k \in 1..Len(transportCalls[i].reply_markup) :
         HasSimulateTradeToken(transportCalls[i].reply_markup[k].callback_data)
  /\ \A r \in Runs :
       callbackQuery[r].origin # 0 =>
         /\ handledBy[r] = "simulate_trade"
         /\ pc[r] # "ignored"
         /\ ~Issued(r, "unknownAnswerCbQuery")
         /\ Issued(r, "answerCbQuery")
         /\ \E m \in MessagesOf(callbackQuery[r].origin) :
              /\ callbackQuery[r].data = m.reply_markup[1].callback_data
              /\ SimulateTradePrefix \o userData[r].callbackData = callbackQuery[r].data

C19_Witness ==
  \E r \in Runs :
    /\ callbackQuery[r].origin = 1 /\ handledBy[r] = "simulate_trade"
    /\ userData[r].callbackData = <<"7", "_">> \o Spell("alice")
    /\ Done(r)

\* ---- C20
\* the lookup of run r has returned
PastCall(r, call) == Issued(r, call) /\ pc[r] # call

\* C20: for a username whose user document, or its twitterId, is missing the
\* lookup throws the error of the first stage and the safes collection is not
\* queried; for one whose safe document, or its arbitrum address, is missing
\* it throws the error of the second stage, a different message; and an
\* identity is handed to the RPC only as the two documents hold it, never a
\* default.
C20_LookupsFailClosed ==
  \A r \in Runs :
    handledBy[r] = "simulate_trade" =>
      LET u == userData[r].username
          user == usersCollection[u]
          noUser == ~user.found \/ user.twitterId = ""
          noSafe == \/ user.twitterId \notin DOMAIN safesCollection
                    \/ ~safesCollection[user.twitterId].found
                    \/ safesCollection[user.twitterId].address = <<>>
      IN /\ (noUser /\ PastCall(r, "findUser")) =>
              /\ ~Issued(r, "findSafe")
              /\ failure[r] = "identity"
              /\ error[r] \in {UserNotFoundError(u), DriverError("findOne")}
         /\ (~noUser /\ noSafe /\ PastCall(r, "findSafe")) =>
              /\ failure[r] = "identity"
              /\ error[r] \in {SafeNotFoundError(user.twitterId), DriverError("findOne")}
              /\ error[r] # UserNotFoundError(u)
         /\ error[r] = UserNotFoundError(u) => noUser
         /\ (\E t \in DOMAIN safesCollection \cup {""} : error[r] = SafeNotFoundError(t)) =>
              ~noUser /\ noSafe
         /\ \A c \in rpcCalls :
              c.run = r =>
                /\ ~noUser /\ ~noSafe
                /\ c.body.username = user.twitterId
                /\ c.body.safeAddress = safesCollection[user.twitterId].address

C20_Witness ==
  \E r \in Runs :
    /\ Done(r) /\ userData[r].username = "bob"
    /\ error[r] = UserNotFoundError("bob") /\ ~Issued(r, "findSafe")

\* ---- C21
\* the prices `${x}` writes in decimal notation
InDecimalNotation(n) == n = 0 \/ n >= Unit \div 1000000

\* the value of the digits before the exponent mark
DigitsBeforeExponent(n) == IntegerOf(<<Head(NumberToString(n))>>) * Unit + FractionOf(
  IF Len(StripTrailingZeros(Decimal(n))) > 1 THEN Tail(StripTrailingZeros(Decimal(n))) ELSE <<>>)

PriceFields == {"tp1", "tp2", "sl", "entryPrice"}

\* C21 (as stated): the parser returns exactly the fields the message was
\* built from, whatever the token and the prices are.
C21_RoundTripAnySignal ==
  (parser.pc = "returned" /\ parser.labels = "plain") => parser.result = parser.signal

\* C21: for a message built with the plain labels the parser returns a token
\* of capital letters and every price written in decimal notation exactly;
\* a field that is not in the message comes back null; any other token comes
\* back null and a price written with an exponent comes back as the digits
\* before the exponent.
C21_RoundTripCapitalTokenDecimalPrices ==
  (parser.pc = "returned" /\ parser.labels = "plain") =>
    /\ DOMAIN parser.result = {"token", "tp1", "tp2", "sl", "entryPrice"}
    /\ parser.result.token =
         IF \A i \in 1..Len(parser.signal.token) : parser.signal.token[i] \in UpperLetters
         THEN parser.signal.token ELSE NullToken
    /\ \A f \in PriceFields :
         parser.result[f] =
           IF parser.signal[f] = Null \/ InDecimalNotation(parser.signal[f])
           THEN parser.signal[f] ELSE DigitsBeforeExponent(parser.signal[f])

C21_Witness ==
  /\ parser.pc = "returned" /\ parser.labels = "plain"
  /\ parser.signal.token = <<"U", "N", "I">> /\ parser.result.token = <<"U", "N", "I">>
  /\ parser.signal.tp1 = 937 * (Unit \div 100) /\ parser.result.tp1 = parser.signal.tp1
  /\ parser.signal.sl = Unit \div 20 /\ parser.result.sl = parser.signal.sl
  /\ parser.signal.tp2 = Null /\ parser.result.tp2 = Null
  /\ parser.signal.entryPrice = 5 * Unit /\ parser.result.entryPrice = 5 * Unit

\* ---- C22
\* C22: a message whose labels are written in bold is parsed to the same
\* fields as the message with the plain labels.
C22_BoldLabelsParseAsPlain ==
  (parser.pc = "returned" /\ parser.labels = "bold") =>
    parser.result = parseSignalMessage(BuildSignalMessage(parser.signal, "plain"))

\* ---- C23
\* C23: client.connect() is pending for at most one caller at a time, and for
\* none once the client is cached.
C23_ConnectPerformedOnce ==
  LET connecting == {r \in Runs : pc[r] = "dbConnect"}
  IN Cardinality(connecting) <= 1 /\ (cachedClient => connecting = {})

\* ---- C24
\* what belongs to the interaction of run r
Interaction(r) ==
  <<pc[r], userData[r], callLog[r], progressInterval[r], refreshInFlight[r],
    processingMessage[r], apiResponse[r], failure[r], terminal[r], error[r],
    RecordsOf(r), InsertsOf(r), {c \in rpcCalls : c.run = r}>>

\* C24: a step in which one run's flow takes an error leaves everything of
\* every other run as it is, and the shared connection too; and a run that
\* took no error of its own ends with the reply formatted from its own
\* response and with its own record stored, whatever happened to the others.
C24_ErrorStaysInItsInteraction ==
  /\ [][\A q \in Runs : failure'[q] # failure[q] =>
          /\ cachedClient' = cachedClient
          /\ \A r \in Runs \ {q} : Interaction(r)' = Interaction(r)]_vars
  /\ [](\A r \in Runs :
          Done(r) /\ failure[r] = "none" =>
            /\ terminal[r] = [via |-> "edit", text |-> FormatReply(apiResponse[r])]
            /\ \E d \in RecordsOf(r) :
                 d.apiResponse = apiResponse[r] /\ d.userData = userData[r])

C24_Witness ==
  \E q, r \in Runs :
    /\ failure[q] = "rpc" /\ pc[q] = "catchEdit"
    /\ Done(r) /\ failure[r] = "none" /\ FlowState(r) = "Succeeded"

\* ---- C25
\* the request of s misses a field its route requires
MissesField(s) ==
  \/ send[s].route = "send"
       /\ (Falsy(send[s].request.username) \/ Falsy(send[s].request.message))
  \/ send[s].route = "send-test-signal" /\ Falsy(send[s].request.username)

\* C25: a request of /telegram/send without username or without message, and
\* one of /telegram/send-test-signal without username, is answered with 400
\* and sendMessage is not called for it: no lookup, no transport call, no
\* message; a request with its fields is not answered with 400.
C25_MissingFieldRejected ==
  \A s \in Sends :
    /\ MissesField(s) =>
         /\ ResponseStatus(s) = 400
         /\ send[s].username = <<>> /\ send[s].cleanUsername = <<>>
         /\ send[s].result = NoOutcome
         /\ CallsOf(s) = {} /\ MessagesOf(s) = {}
    /\ (send[s].route # "none" /\ ~MissesField(s)) => ResponseStatus(s) # 400

C25_Witness ==
  \E s \in Sends :
    /\ send[s].route = "send"
    /\ send[s].request.username = Field(Spell("alice"))
    /\ ~send[s].request.message.present
    /\ ResponseStatus(s) = 400

\* ---- C26
\* C26: once the terminal edit of the result, or the error edit (or its
\* fallback reply), has been issued the timer is cleared, and it is cleared
\* in every handler that has ended.
C26_TimerClearedBeforeTerminalEdit ==
  \A r \in Runs :
    (Issued(r, "editMessageText") \/ Issued(r, "catchEdit") \/ Issued(r, "catchReply")
       \/ Done(r)) => ~progressInterval[r]

C26_Witness ==
  \E q, r \in Runs :
    /\ pc[q] = "editMessageText" /\ ~progressInterval[q]
    /\ processingMessage[q] = RefreshText
    /\ pc[r] = "catchEdit" /\ ~progressInterval[r] /\ failure[r] = "rpc"
    /\ processingMessage[r] = RefreshText

\* ---- C27
RefreshLine == "Could not update progress, continuing..."

\* C27: the step in which a refresh edit is rejected changes nothing of the
\* flow: not where the handler stands, its calls, its timer, its failure or
\* error, its response or the messages shown; and a flow with a rejected
\* refresh and no error of its own ends with the reply formatted from its
\* response, as it does without the rejection.
C27_RefreshFailureSwallowed ==
  /\ [][\A r \in Runs :
          (RefreshLine \in console'[r].lines /\ RefreshLine \notin console[r].lines) =>
            /\ pc'[r] = pc[r] /\ callLog'[r] = callLog[r]
            /\ progressInterval'[r] = progressInterval[r]
            /\ failure'[r] = failure[r] /\ error'[r] = error[r]
            /\ apiResponse'[r] = apiResponse[r] /\ terminal'[r] = terminal[r]
            /\ processingMessage'[r] = processingMessage[r]]_vars
  /\ [](\A r \in Runs :
          (Done(r) /\ RefreshLine \in console[r].lines /\ failure[r] = "none") =>
            terminal[r] = [via |-> "edit", text |-> FormatReply(apiResponse[r])])

C27_Witness ==
  \E r \in Runs :
    /\ RefreshLine \in console[r].lines
    /\ Done(r) /\ FlowState(r) = "Succeeded"
    /\ terminal[r] = [via |-> "edit", text |-> FormatReply(apiResponse[r])]

\* ---- C28
ExpiredLine == "Callback query already expired, skipping answerCbQuery"

\* C28: a flow that took an error has issued the acknowledgement again; when
\* that call has come back, accepted or rejected, the error edit (inner
\* catch) or the reply (outer catch) has been issued; and a finished flow
\* whose second acknowledgement was rejected shows the error text, unless the
\* chat transport rejected every message of the error path.
C28_FailedAckIgnored ==
  \A r \in Runs :
    /\ failure[r] # "none" =>
         Issued(r, "catchAnswerCbQuery") \/ Issued(r, "outerAnswerCbQuery")
    /\ PastCall(r, "catchAnswerCbQuery") => Issued(r, "catchEdit")
    /\ PastCall(r, "outerAnswerCbQuery") => Issued(r, "outerReply")
    /\ (Done(r) /\ ExpiredLine \in console[r].lines) =>
         \/ terminal[r].text = ErrorText
         \/ terminal[r] = NoTerminal /\ Issued(r, "outerReply")

C28_Witness ==
  \E r \in Runs :
    /\ ExpiredLine \in console[r].lines
    /\ ~Issued(r, "outerAnswerCbQuery")
    /\ Done(r) /\ terminal[r] = [via |-> "edit", text |-> ErrorText]

\* ---- C29
OrchestratorSteps == <<"dbConnect", "findUser", "findSafe", "axios.post", "insertOne">>

IsOrchestratorCall(call) == call \in RemoteCalls

\* the calls handleSimulateTradeRequest of run r has issued, in order
OrchestratorCalls(r) == SelectSeq(callLog[r], IsOrchestratorCall)

\* C29: the calls of the Orchestrator are issued in the order connection and
\* identity lookups, RPC, insert, each at most once and none while another is
\* awaited; the RPC is posted with the fields parsed from the message and
\* the identity resolved, and the insert is issued with the response the RPC
\* returned.
C29_StepsInOrderOnce ==
  \A r \in Runs :
    LET calls == OrchestratorCalls(r)
    IN /\ Len(calls) <= Len(OrchestratorSteps)
       /\ calls = SubSeq(OrchestratorSteps, 1, Len(calls))
       /\ Issued(r, "axios.post") =>
            \E c \in rpcCalls :
              /\ c.run = r
              /\ c.body = apiBody(parseSignalMessage(userData[r].messageText),
                                   fetchUserData(userData[r].username).username,
                                   fetchUserData(userData[r].username).safeAddress)
       /\ Issued(r, "insertOne") =>
            /\ apiResponse[r] # NoResponse
            /\ \A c \in InsertsOf(r) : c.doc.apiResponse = apiResponse[r]
       /\ Cardinality({c \in rpcCalls : c.run = r}) <= 1
       /\ Cardinality(InsertsOf(r)) <= 1

C29_Witness ==
  \E r \in Runs :
    /\ OrchestratorCalls(r) = OrchestratorSteps
    /\ Done(r) /\ RecordsOf(r) # {}

\* ---- C30
\* C30: a record the collection holds stays in it as it is, and the
\* collection holds at most one record of a handled event, the one passed to
\* its insertOne.
C30_InsertOnly ==
  /\ [][\A d \in trade_simulations : d \in trade_simulations']_vars
  /\ [](\A r \in Runs :
          /\ Cardinality(RecordsOf(r)) <= 1
          /\ \A d \in RecordsOf(r) : \E c \in InsertsOf(r) : c.doc = d)

C30_Witness ==
  \E q, r \in Runs :
    /\ q # r /\ Done(q) /\ Done(r)
    /\ userData[q].username = userData[r].username
    /\ Cardinality(trade_simulations) = 2

\* ---- C31
\* C31: the current price posted to the RPC is the parsed entryPrice when the
\* message has one (null, zero or positive alike); otherwise the arithmetic
\* mean of tp1 and the stop loss when the message has both; otherwise null.
C31_EstimateEntryElseMeanElseNull ==
  \A c \in rpcCalls :
    (c.run = 0 /\ parser.pc = "posted") =>
      c.body.currentPriceTimes2 =
        IF parser.result.entryPrice # Null THEN 2 * parser.result.entryPrice
        ELSE IF parser.result.tp1 # Null /\ parser.result.sl # Null
             THEN parser.result.tp1 + parser.result.sl
             ELSE Null

\* ---- C32
\* C32: in the success report the chat shows, none of the fields taken from
\* the response (signal identifier, network, custodial address, trade
\* identifier, status) holds an underscore without a backslash before it.
C32_SuccessReportNoBareUnderscore ==
  \A r \in Runs :
    (terminal[r].via = "edit" /\ terminal[r].text.kind = "success") =>
      \A i \in 1..Len(terminal[r].text.fields) :
        NoBareUnderscore(terminal[r].text.fields[i])

\* ---- C33
\* C33: a step that applies a refresh edit applies an edit the timer of that
\* same event issued, to the processing message of that event and to no
\* other; a step that clears the timer of one event leaves the timer of every
\* other event set and its pending refresh edits pending; and a refresh edit
\* is pending only for an event whose handler posted a processing message.
C33_TimerScopedToItsEvent ==
  /\ [][\A r \in Runs :
          /\ (processingMessage'[r] = RefreshText /\ processingMessage[r] # RefreshText) =>
               /\ refreshInFlight[r]
               /\ \A q \in Runs \ {r} : processingMessage'[q] = processingMessage[q]
          /\ (progressInterval[r] /\ ~progressInterval'[r]) =>
               \A q \in Runs \ {r} :
                 /\ progressInterval'[q] = progressInterval[q]
                 /\ refreshInFlight'[q] = refreshInFlight[q]]_vars
  /\ [](\A r \in Runs :
          (progressInterval[r] \/ refreshInFlight[r]) => processingMessage[r] # NoMessage)

C33_Witness ==
  \E q, r \in Runs :
    /\ Done(q) /\ ~progressInterval[q] /\ terminal[q].via = "edit"
    /\ processingMessage[q] = terminal[q].text
    /\ progressInterval[r] /\ refreshInFlight[r] /\ processingMessage[r] = RefreshText

\* ---- C34
\* the two queries differ in nothing but the token
SamePressOtherToken(r, q) ==
  /\ callbackQuery[r] # NoQuery /\ callbackQuery[q] # NoQuery
  /\ [callbackQuery[r] EXCEPT !.data = <<>>] = [callbackQuery[q] EXCEPT !.data = <<>>]

\* the lookup of run r (findUser, findSafe) was answered by the store
Answered(r, call) == PastCall(r, call) /\ error[r].name # "DriverError"

\* C34: the username looked up, the identity and address posted to the RPC
\* and those stored in the record are the ones the directory holds for the
\* user who pressed, whatever username the token carries; and two presses
\* that differ only in the token take the same way through the lookups, post
\* the same request, store the same identity and, given the same response,
\* show the same terminal message.
C34_IdentityFromPresserOnly ==
  \A r \in Runs :
    handledBy[r] = "simulate_trade" =>
      LET u == callbackQuery[r].from
      IN /\ userData[r].username = u
         /\ error[r].name = "Error" =>
              error[r] \in {UserNotFoundError(u), SafeNotFoundError(usersCollection[u].twitterId)}
         /\ \A c \in rpcCalls :
              c.run = r =>
                c.body = apiBody(parseSignalMessage(callbackQuery[r].messageText),
                                 TradingIdentity(u), CustodialAddress(u))
         /\ \A c \in InsertsOf(r) :
              /\ c.doc.userData.username = u
              /\ c.doc.twitterId = TradingIdentity(u)
              /\ c.doc.safeAddress = CustodialAddress(u)
         /\ \A q \in Runs :
              SamePressOtherToken(r, q) =>
                /\ (Answered(r, "findUser") /\ Answered(q, "findUser")) =>
                     (Issued(r, "findSafe") <=> Issued(q, "findSafe"))
                /\ (Answered(r, "findSafe") /\ Answered(q, "findSafe")) =>
                     (Issued(r, "axios.post") <=> Issued(q, "axios.post"))
                /\ \A c, e \in rpcCalls : (c.run = r /\ e.run = q) => c.body = e.body
                /\ \A c \in InsertsOf(r), e \in InsertsOf(q) :
                     /\ c.doc.twitterId = e.doc.twitterId
                     /\ c.doc.safeAddress = e.doc.safeAddress
                     /\ c.doc.signalData = e.doc.signalData
                /\ (Done(r) /\ Done(q) /\ failure[r] = "none" /\ failure[q] = "none"
                      /\ apiResponse[r] = apiResponse[q]) => terminal[r] = terminal[q]

C34_Witness ==
  \E r, q \in Runs :
    /\ SamePressOtherToken(r, q)
    /\ callbackQuery[r].from = "alice"
    /\ callbackQuery[r].data = SimulateTradePrefix \o <<"7", "_">> \o Spell("carol")
    /\ callbackQuery[q].data = SimulateTradePrefix \o <<"7", "_">> \o Spell("alice")
    /\ Done(r) /\ Done(q) /\ failure[r] = "none" /\ failure[q] = "none"
    /\ Cardinality(trade_simulations) = 2
    /\ \A d \in trade_simulations : d.twitterId = "tw_alice"

\* ---- C35
\* C35: every record passed to insertOne, and every record the collection
\* holds, has the status "initiated", whatever the status of the response it
\* embeds; and the status of a stored record does not change.
C35_RecordStatusInitiated ==
  /\ [](\A c \in insertCalls : c.doc.status = "initiated")
  /\ [](\A d \in trade_simulations : d.status = "initiated")
  /\ [][\A d \in trade_simulations :
          \A e \in trade_simulations' : e.id = d.id => e.status = d.status]_vars

C35_Witness ==
  \E r \in Runs : \E d \in RecordsOf(r) :
    /\ d.status = "initiated" /\ d.apiResponse.status = "success"
    /\ Done(r) /\ terminal[r].text.kind = "success"

\* ---- C36
\* C36: for an event whose RPC raised an error instead of returning a
\* response, insertOne is not called and the collection holds no record: the
\* flow goes from the rejected post to the inner catch.
C36_RpcErrorNoRecord ==
  \A r \in Runs :
    failure[r] = "rpc" =>
      /\ Issued(r, "axios.post") /\ \E c \in rpcCalls : c.run = r
      /\ apiResponse[r] = NoResponse
      /\ ~Issued(r, "insertOne")
      /\ InsertsOf(r) = {} /\ RecordsOf(r) = {}
      /\ Issued(r, "catchAnswerCbQuery")

C36_Witness ==
  \E r \in Runs :
    /\ failure[r] = "rpc" /\ Done(r)
    /\ trade_simulations = {} /\ insertCalls = {}
    /\ terminal[r] = [via |-> "edit", text |-> ErrorText]

\* ---- C37
\* the response is there and its status is neither "success" nor "failed"
Unexpected(resp) == resp # NoResponse /\ resp.status \notin {"success", "failed"}

InitiatedText == Text("initiated", <<>>)

\* C37: for a response whose status is neither "success" nor "failed" the
\* record is passed to insertOne with the response embedded, the reply is
\* formatted without an error to the generic "initiated" text, and when the
\* store has accepted the insert the terminal edit is issued and the record
\* is stored; the chat never shows a success or failure report for it, and a
\* flow that took no error ends Succeeded showing the "initiated" text.  The
\* reply is formatted to the same text for a response without a status.
C37_UnexpectedStatusShowsInitiated ==
  /\ FormatReply(StatuslessResponse) = InitiatedText
  /\ ~FormatThrows(StatuslessResponse)
  /\ \A r \in Runs :
       Unexpected(apiResponse[r]) =>
         /\ Issued(r, "insertOne")
         /\ \E c \in InsertsOf(r) : c.doc.apiResponse = apiResponse[r]
         /\ FormatReply(apiResponse[r]) = InitiatedText
         /\ failure[r] \notin {"rpc", "format"}
         /\ (PastCall(r, "insertOne") /\ failure[r] # "insert") =>
              /\ Issued(r, "editMessageText")
              /\ \E d \in RecordsOf(r) : d.apiResponse = apiResponse[r]
         /\ terminal[r].text.kind \notin {"success", "failed"}
         /\ (Done(r) /\ failure[r] = "none") =>
              /\ terminal[r] = [via |-> "edit", text |-> InitiatedText]
              /\ FlowState(r) = "Succeeded"

C37_Witness ==
  \E r \in Runs :
    /\ apiResponse[r].status = "pending" /\ Done(r) /\ failure[r] = "none"
    /\ terminal[r] = [via |-> "edit", text |-> InitiatedText]
    /\ processingMessage[r] = InitiatedText
    /\ \E d \in RecordsOf(r) : d.apiResponse.status = "pending"

\* ---- C38
\* the calls of the handler that follow the posting of the processing message
LaterCalls ==
  RemoteCalls \cup {"editMessageText", "catchAnswerCbQuery", "catchEdit", "catchReply"}

\* C38: no timer is set while the first acknowledgement or the posting of
\* the processing message is awaited; and for an event whose first
\* acknowledgement or posting was rejected there is no timer, no refresh
\* edit and no processing message, no lookup, RPC or insert is issued, the
\* acknowledgement is issued once more and, when that call has come back
\* (accepted or rejected), the error text is issued once as a plain reply:
\* the handler ends after these calls and no others.
C38_EarlyFailureOneAckOneReply ==
  \A r \in Runs :
    /\ pc[r] \in {"answerCbQuery", "reply"} => ~progressInterval[r] /\ ~refreshInFlight[r]
    /\ failure[r] \in {"ack", "post"} =>
         /\ ~progressInterval[r] /\ ~refreshInFlight[r]
         /\ processingMessage[r] = NoMessage
         /\ \A i \in 1..Len(callLog[r]) : callLog[r][i] \notin LaterCalls
         /\ \A c \in rpcCalls : c.run # r
         /\ InsertsOf(r) = {} /\ RecordsOf(r) = {}
         /\ TimesIssued(r, "outerAnswerCbQuery") = 1
         /\ TimesIssued(r, "outerReply") = IF PastCall(r, "outerAnswerCbQuery") THEN 1 ELSE 0
         /\ Done(r) =>
              /\ callLog[r] =
                   (IF failure[r] = "ack" THEN <<"answerCbQuery">>
                    ELSE <<"answerCbQuery", "reply">>) \o <<"outerAnswerCbQuery", "outerReply">>
              /\ terminal[r] \in {[via |-> "reply", text |-> ErrorText], NoTerminal}

C38_Witness ==
  \E r \in Runs :
    /\ failure[r] = "post" /\ Done(r)
    /\ ExpiredLine \in console[r].lines
    /\ terminal[r] = [via |-> "reply", text |-> ErrorText]
    /\ rpcCalls = {} /\ ~cachedClient

\* ---- C39
\* C39: every callback query the bot received is taken by one handler: one
\* whose payload matches the simulate-trade pattern by the simulate-trade
\* handler, which acknowledges it first and runs its flow, and the generic
\* handler's "Unknown action" answer is never issued for it; any other by
\* the generic handler alone.
C39_OneHandlerPerQuery ==
  \A r \in Runs :
    callbackQuery[r] # NoQuery =>
      /\ handledBy[r] \in {"simulate_trade", "unknown"}
      /\ HasSimulateTradeToken(callbackQuery[r].data) =>
           /\ handledBy[r] = "simulate_trade"
           /\ pc[r] # "ignored"
           /\ callLog[r][1] = "answerCbQuery"
           /\ ~Issued(r, "unknownAnswerCbQuery")
      /\ Issued(r, "answerCbQuery") <=> handledBy[r] = "simulate_trade"
      /\ Issued(r, "unknownAnswerCbQuery") <=> handledBy[r] = "unknown"
      /\ TimesIssued(r, "answerCbQuery") + TimesIssued(r, "unknownAnswerCbQuery") = 1

C39_Witness ==
  \E r \in Runs :
    /\ callbackQuery[r].origin = 0
    /\ callbackQuery[r].data = SimulateTradePrefix \o <<"3", "_">> \o Spell("alice")
    /\ handledBy[r] = "simulate_trade" /\ Done(r)
    /\ ~Issued(r, "unknownAnswerCbQuery")

\* ---- C40
\* C40: the cache is filled only in a step in which a pending connect call
\* resolves, and it is filled only if some connect call has resolved; the
\* step in which a connect call fails hands the error to the caller and
\* leaves the cache as it was, empty if it was empty; and a handler that
\* calls dbConnect awaits a connect call exactly when the cache is empty,
\* also after an earlier connect call has failed.
C40_CacheOnlyAfterConnect ==
  /\ [][/\ (cachedClient' /\ ~cachedClient) =>
             \E r \in Runs : pc[r] = "dbConnect" /\ pc'[r] = "findUser"
        /\ \A r \in Runs :
             (failure'[r] = "connect" /\ failure[r] # "connect") =>
               /\ pc[r] = "dbConnect"
               /\ error'[r] = DriverError("connect")
               /\ cachedClient' = cachedClient
        /\ \A r \in Runs :
             (pc[r] = "reply" /\ pc'[r] \in {"dbConnect", "findUser"}) =>
               (pc'[r] = "dbConnect" <=> ~cachedClient)]_vars
  /\ [](cachedClient =>
          \E r \in Runs : PastCall(r, "dbConnect") /\ Issued(r, "findUser"))

C40_Witness ==
  \E q, r \in Runs :
    /\ Done(q) /\ failure[q] = "connect" /\ error[q] = DriverError("connect")
    /\ ~cachedClient
    /\ pc[r] = "dbConnect" /\ failure[r] = "none"

====
